---------------------------- MODULE Spec2Model ----------------------------
(***************************************************************************)
(* L2 Vault: the vault registry, the IndexedDB storage layer, the duress   *)
(* controller and the application's session handlers, as a state machine.  *)
(*                                                                         *)
(* Every async function of the source is cut at its awaits: one action is  *)
(* the code that runs from the resumption after one await up to and        *)
(* including the effect of the next awaited call.  Between two actions of  *)
(* one handler any other event handler may run.                            *)
(***************************************************************************)
EXTENDS Integers, Sequences, FiniteSets, TLC

VARIABLES
    localStorage,     \* window.localStorage: key -> value, for the keys present
    currentVaultId,   \* generator.js:892  let currentVaultId
    idb,              \* the browser's IndexedDB: database name -> content
    dbInstances,      \* generator.js:460  names that have a handle in the Map
    pendingOpens,     \* names with an indexedDB.open request of switchVaultDb in flight
    leaked,           \* names with an open handle that is no longer in the Map
    deletePending,    \* names with a deleteDatabase request blocked by an open handle
    vaultsCreated,    \* how many vaults createVault has made (ids are never reused)
    deleteReturn,     \* how the last deleteVault call ended
    encryptionKey,    \* app.js:60  let encryptionKey
    credentials,      \* app.js:63  let credentials
    autoLockTimer,    \* app.js:61  let autoLockTimer (TRUE: a timer is pending)
    screen,           \* which screen showScreen made active
    duressEnabled,    \* duress-mode.js:11 let duressEnabled
    dx,               \* the executeDuressActions call in progress, if any
    duressReturn,     \* what the last call of a duress operation returned
    clock,            \* Date.now(), counted in activations
    un,               \* the handleUnlock call in progress, if any
    cp,               \* the handleChangePassword call in progress, if any
    sv,               \* the handleSaveCredential call in progress, if any
    nextSalt,         \* how many salts createPasswordHash has drawn
    lastWrite,        \* the last store write: who issued it and where it went
    qr,               \* the QR transfer encoded last and the last decode of it
    access,           \* the time access rules and the last isCredentialAccessible call
    totp,             \* the last call of a function of totp.js and what it returned
    aes,              \* the last encrypt and the last decrypt of aes.js
    verify,           \* the last verifyPassword call and what it returned
    breach,           \* the breach check in progress: its loop, its lookups and the clock
    lock,             \* the auto-lock timer, the clock and the last click or keypress
    vault,            \* one vault under the handlers of app.js, its backup files and the import in progress
    gen               \* the last generateMaxSecurity call and the password it returned

regVars == << localStorage, currentVaultId, vaultsCreated, deleteReturn >>
idbVars == << idb, dbInstances, pendingOpens, leaked, deletePending >>
sessionVars == << encryptionKey, credentials, autoLockTimer, screen >>
duressVars == << duressEnabled, dx, duressReturn, clock >>

procVars == << un, cp, sv, nextSalt, lastWrite >>

qrVars == << qr >>

accessVars == << access >>
totpVars == << totp >>
aesVars == << aes >>
verifyVars == << verify >>
breachVars == << breach >>
lockVars == << lock >>
vaultVars == << vault >>
genVars == << gen >>
toolVars == << accessVars, totpVars, aesVars, verifyVars, breachVars, lockVars, vaultVars, genVars >>

vars == << regVars, idbVars, sessionVars, duressVars, procVars, qrVars, toolVars >>

-----------------------------------------------------------------------------
(* Bounds *)

MaxVaults == 1        \* vaults created besides the default one
MaxActivations == 2   \* executeDuressActions calls in one behaviour
MaxSalts == 2         \* salts createPasswordHash draws in one behaviour
MaxCreds == 2         \* credentials the list holds when one more is added
MaxImport == 3        \* records of an array given to importVaultsMeta
MaxRecords == 2       \* credentials of one QR transfer
NotesLen == 400       \* characters of the notes of a long credential
MaxDay == 6           \* calendar days, from a Sunday on, that the clock may show
MaxSecretLen == 8     \* base32 characters of a secret given to base32Decode
MaxPlainLen == 2      \* code units of a plaintext given to encrypt
MaxBreachList == 3    \* credentials of a list given to checkAllBreaches
MaxNow == 4000        \* milliseconds the clock of a breach check runs
MaxClock == 300000    \* milliseconds the clock of the auto-lock timer runs
MaxDraws == 3         \* salts createPasswordHash draws for one vault and its backups
MaxIds == 3           \* ids the key generator of the credentials store gives
MaxFiles == 1         \* backup files handleExport writes in one behaviour
MaxLength == 5        \* characters of a password asked of generateMaxSecurity

\* the master passwords a user types (each of 8 characters or more)
Passwords == {"pw1", "pw2"}

-----------------------------------------------------------------------------
(* Strings whose characters matter are sequences of one-character strings. *)

StartsWith(s, p) == Len(s) >= Len(p) /\ SubSeq(s, 1, Len(p)) = p

\* the ids createVault can hand out (vault_<time>_<random>), and their text
VaultIdPool == << "v1", "v2", "v3", "v4" >>
CreatedIds == { VaultIdPool[i] : i \in 1..MaxVaults }
VaultIds == {"default"} \cup CreatedIds
IdText(id) ==
    CASE id = "v1" -> << "v", "1" >>
      [] id = "v2" -> << "v", "2" >>
      [] id = "v3" -> << "v", "3" >>
      [] id = "v4" -> << "v", "4" >>
      [] id = "default" -> << "d", "e", "f", "a", "u", "l", "t" >>

\* localStorage keys
DURESS_KEY == "duressMode"
DURESS_PASSWORD_KEY == "duressPasswordHash"
DURESS_CREDENTIALS_KEY == "duressCredentials"
DURESS_LOGS_KEY == "duressLogs"
VAULTS_META_KEY == "l2vault_vaults_meta"
CURRENT_VAULT_KEY == "l2vault_current_vault"

LsHas(ls, k) == k \in DOMAIN ls
LsSet(ls, k, v) == [x \in (DOMAIN ls) \cup {k} |-> IF x = k THEN v ELSE ls[x]]
LsRemove(ls, k) == [x \in (DOMAIN ls) \ {k} |-> ls[x]]
LsEmpty == [x \in {} |-> 0]

-----------------------------------------------------------------------------
(* Vault registry (vaults.js, bundled in generator.js) *)

\* the palette of generateVaultColor
Palette == << "#D4AF37", "#E53935", "#8E24AA", "#1E88E5", "#43A047",
              "#FB8C00", "#00ACC1", "#F06292", "#7CB342", "#5E35B1" >>

generateVaultColor(index) == Palette[(index % Len(Palette)) + 1]

\* the names a user gives a vault, and the colors a user picks
VaultNames == {"Work"}
VaultColors == {Palette[2]}

DefaultVaultList ==
    << [id |-> "default", name |-> "Principal", color |-> "#D4AF37", isDefault |-> TRUE] >>

getAllVaultsOf(ls) ==
    IF LsHas(ls, VAULTS_META_KEY) THEN ls[VAULTS_META_KEY] ELSE DefaultVaultList

getAllVaults == getAllVaultsOf(localStorage)

RegisteredIds == { getAllVaults[i].id : i \in 1..Len(getAllVaults) }

saveVaultsMeta(ls, vaults) == LsSet(ls, VAULTS_META_KEY, vaults)

getVaultDbName(vaultId) ==
    IF vaultId = "default"
    THEN << "L", "2", "V", "a", "u", "l", "t", "D", "B" >>
    ELSE << "l", "2", "v", "a", "u", "l", "t", "_" >> \o IdText(vaultId)

getDbName == getVaultDbName(currentVaultId)

DbNames == { getVaultDbName(v) : v \in VaultIds }

\* a database as indexedDB.open creates it (onupgradeneeded): empty stores; salts
\* is history, the salts of the master records ever stored in it
EmptyDb == [auth |-> << >>, creds |-> << >>, salts |-> {}]

IdbHas(name) == name \in DOMAIN idb
IdbPut(db, name, content) ==
    [x \in (DOMAIN db) \cup {name} |-> IF x = name THEN content ELSE db[x]]
IdbDrop(db, names) == [x \in (DOMAIN db) \ names |-> db[x]]

\* names some connection is open on: deleteDatabase waits for all of them to close
OpenConns == dbInstances \cup leaked

\* indexedDB.deleteDatabase(name) for every name of `names`: the database goes
\* at once unless a connection is open on it (no handle of the source closes on
\* versionchange), and then the request stays blocked
deleteDatabase(names) ==
    /\ idb' = IdbDrop(idb, names \ OpenConns)
    /\ deletePending' = deletePending \cup (names \cap OpenConns \cap DOMAIN idb)

\* a blocked deleteDatabase request runs once the last connection has closed
IdbDeleteUnblocked ==
    \E name \in deletePending :
        /\ name \notin OpenConns
        /\ idb' = IdbDrop(idb, {name})
        /\ deletePending' = deletePending \ {name}
        /\ UNCHANGED << dbInstances, pendingOpens, leaked >>
        /\ UNCHANGED << regVars, qrVars, toolVars, sessionVars, duressVars, procVars >>

\* request.onsuccess of initDatabase: the database exists from now on and its
\* handle is stored under the name the request was made for, whatever vault is
\* current by now; a handle already stored under that name is overwritten and
\* stays open
OpenSucceeds(name) ==
    /\ name \notin deletePending
    /\ idb' = IF IdbHas(name) THEN idb ELSE IdbPut(idb, name, EmptyDb)
    /\ dbInstances' = dbInstances \cup {name}
    /\ leaked' = IF name \in dbInstances THEN leaked \cup {name} ELSE leaked
    /\ UNCHANGED deletePending

\* the open request that handleVaultChange's switchVaultDb made completes; what
\* handleVaultChange does afterwards (checkFirstTime) changes the lock screen's
\* texts only
OpenDone ==
    \E name \in pendingOpens :
        /\ OpenSucceeds(name)
        /\ pendingOpens' = pendingOpens \ {name}
        /\ UNCHANGED << regVars, qrVars, toolVars, sessionVars, duressVars, procVars >>

-----------------------------------------------------------------------------
(* Session state of app.js *)

NoKey == [pw |-> "none", salt |-> 0]

\* vaults.js createVault: a fresh id, appended to the stored list
createVault ==
    /\ vaultsCreated < MaxVaults
    /\ \E name \in VaultNames :
          LET newVault == [id |-> VaultIdPool[vaultsCreated + 1], name |-> name,
                           color |-> generateVaultColor(Len(getAllVaults)),
                           isDefault |-> FALSE]
          IN localStorage' = saveVaultsMeta(localStorage, Append(getAllVaults, newVault))
    /\ vaultsCreated' = vaultsCreated + 1
    /\ UNCHANGED << currentVaultId, deleteReturn, qrVars, toolVars, idbVars, sessionVars,
                    duressVars, procVars >>

setCurrentVault(ls, vaultId) == LsSet(ls, CURRENT_VAULT_KEY, vaultId)

\* vault-switcher.js switchToVault: setCurrentVault, then the vaultChanged event,
\* whose listener handleVaultChange runs synchronously up to its first await:
\* the key and the list are dropped, the timer is cleared, switchVaultDb closes
\* every handle of the Map and initDatabase asks to open the new vault's database
switchToVault ==
    \E vaultId \in RegisteredIds :
        /\ screen = "lock"
        /\ currentVaultId' = vaultId
        /\ localStorage' = setCurrentVault(localStorage, vaultId)
        /\ encryptionKey' = NoKey
        /\ credentials' = << >>
        /\ autoLockTimer' = FALSE
        /\ dbInstances' = {}
        /\ pendingOpens' = pendingOpens \cup {getVaultDbName(vaultId)}
        /\ UNCHANGED << vaultsCreated, deleteReturn, qrVars, toolVars, idb, leaked, deletePending, screen,
                        duressVars, procVars >>

-----------------------------------------------------------------------------
(* Storage layer (storage/db.js, bundled in generator.js) as the handlers of
   app.js use it.  Every store function starts with `await initDatabase()` and
   then takes getDb(), the handle of the vault that is current at that moment:
   if the handle is in the Map the request is issued in the same turn, else
   the function waits for its own open request and resolves getDb() when that
   completes. *)

NoWait == << >>

StorageNow == [idb |-> idb, inst |-> dbInstances]

\* the storage once the open request for `name` has succeeded
StorageAfterOpen(name) ==
    [idb |-> IF IdbHas(name) THEN idb ELSE IdbPut(idb, name, EmptyDb),
     inst |-> dbInstances \cup {name}]

\* argon2.js deriveKey(password, salt): the key material, which createPasswordHash
\* also stores as the hash
deriveKey(password, salt) == [pw |-> password, salt |-> salt]

\* verifyPassword: the derived hash equals the stored one, byte for byte
verifyStoredPassword(password, master) == deriveKey(password, master.salt) = master.hash

\* store.put({key: 'master', hash, salt})
PutAuth(db, name, hash, salt) ==
    IdbPut(db, name, [db[name] EXCEPT !.auth = << [hash |-> hash, salt |-> salt] >>,
                                      !.salts = @ \cup {salt}])

MaxId(creds) == IF DOMAIN creds = {} THEN 0
                ELSE CHOOSE m \in DOMAIN creds : \A x \in DOMAIN creds : x <= m

\* store.put(data): the record replaces the one with its id, or is inserted
PutCred(db, name, id, key) ==
    LET old == db[name].creds
        new == [x \in (DOMAIN old) \cup {id} |-> IF x = id THEN [key |-> key] ELSE old[x]]
    IN IdbPut(db, name, [db[name] EXCEPT !.creds = new])

\* store.add(data): the key generator gives the next id
AddCred(db, name, key) == PutCred(db, name, MaxId(db[name].creds) + 1, key)

\* store.getAll(): the records in id order, as the caller holds them in memory
\* (db: which database they were read from)
RECURSIVE GetAllFrom(_, _, _)
GetAllFrom(creds, name, from) ==
    IF \A x \in DOMAIN creds : x < from THEN << >>
    ELSE LET id == CHOOSE m \in DOMAIN creds :
                       m >= from /\ \A x \in DOMAIN creds : x >= from => m <= x
         IN << [id |-> id, key |-> creds[id].key, db |-> name] >>
              \o GetAllFrom(creds, name, id + 1)

GetAll(db, name) == GetAllFrom(db[name].creds, name, 1)

Wrote(who, vaultId, name) == [by |-> who, startedIn |-> vaultId, appliedTo |-> name]
NoWrite == [by |-> "none", startedIn |-> "none", appliedTo |-> << >>]

-----------------------------------------------------------------------------
(* handleUnlock (app.js 445-499) *)

UnIdle == [pc |-> "idle", wait |-> NoWait, vault |-> "none", password |-> "none",
           has |-> FALSE, master |-> << >>, salt |-> 0, loaded |-> << >>]

\* the request of the awaited store function, on the storage `st`; a null
\* getDb() raises, which the handler's catch turns into a status text
UnDo(u, st) ==
    IF getDbName \notin st.inst
    THEN /\ un' = UnIdle
         /\ idb' = st.idb
         /\ UNCHANGED lastWrite
    ELSE CASE u.pc = "hasMaster" ->
                /\ un' = [u EXCEPT !.has = st.idb[getDbName].auth # << >>]
                /\ idb' = st.idb
                /\ UNCHANGED lastWrite
           [] u.pc = "getMaster" ->
                /\ un' = [u EXCEPT !.master = st.idb[getDbName].auth]
                /\ idb' = st.idb
                /\ UNCHANGED lastWrite
           [] u.pc = "storeMaster" ->
                /\ un' = u
                /\ idb' = PutAuth(st.idb, getDbName, deriveKey(u.password, u.salt), u.salt)
                /\ lastWrite' = Wrote("handleUnlock", u.vault, getDbName)
           [] u.pc = "load" ->
                /\ un' = [u EXCEPT !.loaded = GetAll(st.idb, getDbName)]
                /\ idb' = st.idb
                /\ UNCHANGED lastWrite

UnIssue(u) ==
    IF getDbName \in dbInstances
    THEN UnDo(u, StorageNow)
    ELSE /\ un' = [u EXCEPT !.wait = getDbName]
         /\ UNCHANGED << idb, lastWrite >>

\* the submit of the unlock form: the button is disabled while a call runs
UnlockSubmit ==
    \E password \in Passwords :
        /\ un.pc = "idle"
        /\ screen = "lock"
        /\ UnIssue([UnIdle EXCEPT !.pc = "hasMaster", !.vault = currentVaultId,
                                  !.password = password])
        /\ UNCHANGED << regVars, qrVars, toolVars, dbInstances, pendingOpens, leaked, deletePending,
                        sessionVars, duressVars, cp, sv, nextSalt >>

\* the open request of the store function handleUnlock waits for succeeds
UnlockOpened ==
    /\ un.wait # NoWait
    /\ un.wait \notin deletePending
    /\ dbInstances' = dbInstances \cup {un.wait}
    /\ leaked' = IF un.wait \in dbInstances THEN leaked \cup {un.wait} ELSE leaked
    /\ UnDo([un EXCEPT !.wait = NoWait], StorageAfterOpen(un.wait))
    /\ UNCHANGED << regVars, qrVars, toolVars, pendingOpens, deletePending, sessionVars, duressVars,
                    cp, sv, nextSalt >>

\* hasMasterPassword has answered: the first-time path hashes the password with
\* a fresh salt and stores it, the other path reads the stored hash and salt
UnlockAfterHasMaster ==
    /\ un.pc = "hasMaster" /\ un.wait = NoWait
    /\ \/ /\ ~un.has
          /\ nextSalt < MaxSalts
          /\ nextSalt' = nextSalt + 1
          /\ UnIssue([un EXCEPT !.pc = "storeMaster", !.salt = nextSalt + 1])
       \/ /\ un.has
          /\ UnIssue([un EXCEPT !.pc = "getMaster"])
          /\ UNCHANGED nextSalt
       \/ /\ ~un.has       \* the password is shorter than 8 characters, or
                         \* deriveKey raises (the Argon2 script does not load)
          /\ un' = UnIdle
          /\ UNCHANGED << idb, lastWrite, nextSalt >>
    /\ UNCHANGED << regVars, qrVars, toolVars, dbInstances, pendingOpens, leaked, deletePending,
                    sessionVars, duressVars, cp, sv >>

\* storeMasterPassword is done: the key is derived and kept, the list is asked for
UnlockAfterStore ==
    /\ un.pc = "storeMaster" /\ un.wait = NoWait
    /\ encryptionKey' = deriveKey(un.password, un.salt)
    /\ UnIssue([un EXCEPT !.pc = "load"])
    /\ UNCHANGED << regVars, qrVars, toolVars, dbInstances, pendingOpens, leaked, deletePending,
                    credentials, autoLockTimer, screen, duressVars, cp, sv, nextSalt >>

\* getMasterPasswordData has answered: a missing record or a wrong password
\* ends in the catch; else the key is derived and kept, the list is asked for
UnlockAfterGetMaster ==
    /\ un.pc = "getMaster" /\ un.wait = NoWait
    /\ IF un.master # << >> /\ verifyStoredPassword(un.password, un.master[1])
       THEN /\ encryptionKey' = deriveKey(un.password, un.master[1].salt)
            /\ UnIssue([un EXCEPT !.pc = "load"])
       ELSE /\ un' = UnIdle
            /\ UNCHANGED << encryptionKey, idb, lastWrite >>
    /\ UNCHANGED << regVars, qrVars, toolVars, dbInstances, pendingOpens, leaked, deletePending,
                    credentials, autoLockTimer, screen, duressVars, cp, sv, nextSalt >>

\* resetAutoLockTimer: nothing without a key, else one pending timer
resetAutoLockTimer(key, timer) == IF key = NoKey THEN timer ELSE TRUE

\* getAllCredentials has answered: the list is kept, the vault screen is shown
UnlockFinish ==
    /\ un.pc = "load" /\ un.wait = NoWait
    /\ credentials' = un.loaded
    /\ screen' = "vault"
    /\ autoLockTimer' = resetAutoLockTimer(encryptionKey, autoLockTimer)
    /\ un' = UnIdle
    /\ UNCHANGED << regVars, qrVars, toolVars, idbVars, encryptionKey, duressVars, cp, sv,
                    nextSalt, lastWrite >>

\* getAllCredentials ends in its onerror: loadCredentials raises and the catch
\* block of handleUnlock shows the message; encryptionKey is left as it is
UnlockLoadFails ==
    /\ un.pc = "load" /\ un.wait = NoWait
    /\ un' = UnIdle
    /\ UNCHANGED << regVars, qrVars, toolVars, idbVars, sessionVars, duressVars, cp, sv,
                    nextSalt, lastWrite >>

\* lockVault (app.js 501-511), from the lock button or from the auto-lock timer
lockVault ==
    /\ screen = "vault" \/ autoLockTimer
    /\ encryptionKey' = NoKey
    /\ credentials' = << >>
    /\ autoLockTimer' = FALSE
    /\ screen' = "lock"
    /\ UNCHANGED << regVars, qrVars, toolVars, idbVars, duressVars, procVars >>

NoDelete == [vaultId |-> "none", raised |-> FALSE]

\* deleteVault's first statement: the default vault is refused
DeleteRefusesNothing(vaultId) == FALSE
DeleteRefuses(vaultId) == vaultId = "default"

\* vaults.js deleteVault: the refusal, or the list without the vault, the default
\* vault made current if the deleted one was, and the database deleted
deleteVault ==
    \E vaultId \in RegisteredIds \cup {"default"} :
        IF DeleteRefuses(vaultId)
        THEN /\ deleteReturn' = [vaultId |-> vaultId, raised |-> TRUE]
             /\ UNCHANGED << localStorage, currentVaultId, vaultsCreated, qrVars, toolVars, idbVars,
                             sessionVars, duressVars, procVars >>
        ELSE /\ LET kept == SelectSeq(getAllVaults, LAMBDA v : v.id # vaultId)
                    saved == saveVaultsMeta(localStorage, kept)
                IN IF currentVaultId = vaultId
                   THEN /\ currentVaultId' = "default"
                        /\ localStorage' = setCurrentVault(saved, "default")
                   ELSE /\ localStorage' = saved
                        /\ UNCHANGED currentVaultId
             /\ deleteDatabase({ << "l", "2", "v", "a", "u", "l", "t", "_" >> \o IdText(vaultId) })
             /\ deleteReturn' = [vaultId |-> vaultId, raised |-> FALSE]
             /\ UNCHANGED << vaultsCreated, dbInstances, pendingOpens, leaked, qrVars, toolVars,
                             sessionVars, duressVars, procVars >>

\* vaults.find(v => v.id === vaultId) followed by an assignment to a field
SetField(vaults, vaultId, field, value) ==
    IF \E i \in 1..Len(vaults) : vaults[i].id = vaultId
    THEN LET k == CHOOSE i \in 1..Len(vaults) :
                      vaults[i].id = vaultId /\ \A j \in 1..(i - 1) : vaults[j].id # vaultId
         IN [vaults EXCEPT ![k] = [@ EXCEPT ![field] = value]]
    ELSE vaults

\* vaults.js renameVault: nothing is saved for an id that is not in the list
renameVault ==
    \E vaultId \in VaultIds, newName \in VaultNames :
        /\ localStorage' =
               IF vaultId \in RegisteredIds
               THEN saveVaultsMeta(localStorage, SetField(getAllVaults, vaultId, "name", newName))
               ELSE localStorage
        /\ UNCHANGED << currentVaultId, vaultsCreated, deleteReturn, qrVars, toolVars, idbVars,
                        sessionVars, duressVars, procVars >>

\* vaults.js setVaultColor
setVaultColor ==
    \E vaultId \in VaultIds, color \in VaultColors :
        /\ localStorage' =
               IF vaultId \in RegisteredIds
               THEN saveVaultsMeta(localStorage, SetField(getAllVaults, vaultId, "color", color))
               ELSE localStorage
        /\ UNCHANGED << currentVaultId, vaultsCreated, deleteReturn, qrVars, toolVars, idbVars,
                        sessionVars, duressVars, procVars >>

\* vaults.js setCurrentVault called on its own: any id is taken
callSetCurrentVault ==
    \E vaultId \in VaultIds :
        /\ currentVaultId' = vaultId
        /\ localStorage' = setCurrentVault(localStorage, vaultId)
        /\ UNCHANGED << vaultsCreated, deleteReturn, qrVars, toolVars, idbVars, sessionVars,
                        duressVars, procVars >>

\* the arrays importVaultsMeta is given: up to MaxImport vault records, with the
\* ids a backup of this installation can hold
ImportRecords ==
    { [id |-> v, name |-> "Imported", color |-> Palette[1], isDefault |-> d] :
        v \in {"default"} \cup { VaultIdPool[i] : i \in 1..vaultsCreated }, d \in BOOLEAN }
ImportLists == UNION { [1..n -> ImportRecords] : n \in 0..MaxImport }

\* vaults.js importVaultsMeta: an array is saved as it is, anything else ignored
importVaultsMeta ==
    /\ \/ \E vaults \in ImportLists : localStorage' = saveVaultsMeta(localStorage, vaults)
       \/ UNCHANGED localStorage
    /\ UNCHANGED << currentVaultId, vaultsCreated, deleteReturn, qrVars, toolVars, idbVars,
                    sessionVars, duressVars, procVars >>

\* vaults.findIndex(v => v.id === id): 0-based, -1 when there is none
findIndex(vaults, id) ==
    IF \E i \in 1..Len(vaults) : vaults[i].id = id
    THEN (CHOOSE i \in 1..Len(vaults) :
              vaults[i].id = id /\ \A j \in 1..(i - 1) : vaults[j].id # id) - 1
    ELSE -1

\* vaults.js getNextVault and getPreviousVault on a list that is not empty
getNextVaultOf(vaults, currentId) ==
    vaults[((findIndex(vaults, currentId) + 1) % Len(vaults)) + 1]

getPreviousVaultOf(vaults, currentId) ==
    vaults[((findIndex(vaults, currentId) - 1 + Len(vaults)) % Len(vaults)) + 1]

getNextVault(currentId) == getNextVaultOf(getAllVaults, currentId)
getPreviousVault(currentId) == getPreviousVaultOf(getAllVaults, currentId)

-----------------------------------------------------------------------------
(* handleSaveCredential (app.js 792-836), adding a credential *)

SvIdle == [pc |-> "idle", wait |-> NoWait, vault |-> "none", key |-> NoKey,
           loaded |-> << >>]

SvDo(u, st) ==
    IF getDbName \notin st.inst
    THEN /\ sv' = SvIdle
         /\ idb' = st.idb
         /\ UNCHANGED lastWrite
    ELSE CASE u.pc = "add" ->
                /\ sv' = u
                /\ idb' = AddCred(st.idb, getDbName, u.key)
                /\ lastWrite' = Wrote("handleSaveCredential", u.vault, getDbName)
           [] u.pc = "load" ->
                /\ sv' = [u EXCEPT !.loaded = GetAll(st.idb, getDbName)]
                /\ idb' = st.idb
                /\ UNCHANGED lastWrite

SvIssue(u) ==
    IF getDbName \in dbInstances
    THEN SvDo(u, StorageNow)
    ELSE /\ sv' = [u EXCEPT !.wait = getDbName]
         /\ UNCHANGED << idb, lastWrite >>

\* the submit of the credential form: encrypt(password, encryptionKey) is called
\* with the key of that moment
SaveSubmit ==
    /\ sv.pc = "idle"
    /\ screen = "vault"
    /\ Len(credentials) < MaxCreds
    /\ sv' = [SvIdle EXCEPT !.pc = "encrypt", !.vault = currentVaultId,
                            !.key = encryptionKey]
    /\ UNCHANGED << regVars, qrVars, toolVars, idbVars, sessionVars, duressVars, un, cp,
                    nextSalt, lastWrite >>

\* encrypt has answered (it rejects without a key): addCredential
SaveEncrypted ==
    /\ sv.pc = "encrypt"
    /\ IF sv.key = NoKey
       THEN /\ sv' = SvIdle
            /\ UNCHANGED << idb, lastWrite >>
       ELSE SvIssue([sv EXCEPT !.pc = "add"])
    /\ UNCHANGED << regVars, qrVars, toolVars, dbInstances, pendingOpens, leaked, deletePending,
                    sessionVars, duressVars, un, cp, nextSalt >>

SaveOpened ==
    /\ sv.wait # NoWait
    /\ sv.wait \notin deletePending
    /\ dbInstances' = dbInstances \cup {sv.wait}
    /\ leaked' = IF sv.wait \in dbInstances THEN leaked \cup {sv.wait} ELSE leaked
    /\ SvDo([sv EXCEPT !.wait = NoWait], StorageAfterOpen(sv.wait))
    /\ UNCHANGED << regVars, qrVars, toolVars, pendingOpens, deletePending, sessionVars, duressVars,
                    un, cp, nextSalt >>

\* addCredential is done: loadCredentials
SaveAfterAdd ==
    /\ sv.pc = "add" /\ sv.wait = NoWait
    /\ SvIssue([sv EXCEPT !.pc = "load"])
    /\ UNCHANGED << regVars, qrVars, toolVars, dbInstances, pendingOpens, leaked, deletePending,
                    sessionVars, duressVars, un, cp, nextSalt >>

\* getAllCredentials has answered: the list is kept and the modal closed
SaveFinish ==
    /\ sv.pc = "load" /\ sv.wait = NoWait
    /\ credentials' = sv.loaded
    /\ sv' = SvIdle
    /\ UNCHANGED << regVars, qrVars, toolVars, idbVars, encryptionKey, autoLockTimer, screen,
                    duressVars, un, cp, nextSalt, lastWrite >>

-----------------------------------------------------------------------------
(* handleChangePassword (app.js 938-992) *)

CpIdle == [pc |-> "idle", wait |-> NoWait, vault |-> "none", cur |-> "none",
           new |-> "none", master |-> << >>, oldKey |-> NoKey, newKey |-> NoKey,
           snap |-> << >>, idx |-> 0]

CpDo(u, st) ==
    IF getDbName \notin st.inst
    THEN /\ cp' = CpIdle
         /\ idb' = st.idb
         /\ UNCHANGED lastWrite
    ELSE CASE u.pc = "getMaster" ->
                /\ cp' = [u EXCEPT !.master = st.idb[getDbName].auth]
                /\ idb' = st.idb
                /\ UNCHANGED lastWrite
           [] u.pc = "update" ->
                /\ cp' = u
                /\ idb' = PutCred(st.idb, getDbName, u.snap[u.idx].id, u.newKey)
                /\ lastWrite' = Wrote("handleChangePassword", u.vault, getDbName)
           [] u.pc = "storeMaster" ->
                /\ cp' = u
                /\ idb' = PutAuth(st.idb, getDbName, u.newKey, u.newKey.salt)
                /\ lastWrite' = Wrote("handleChangePassword", u.vault, getDbName)

CpIssue(u) ==
    IF getDbName \in dbInstances
    THEN CpDo(u, StorageNow)
    ELSE /\ cp' = [u EXCEPT !.wait = getDbName]
         /\ UNCHANGED << idb, lastWrite >>

\* the settings entry: the current password is prompted for, the stored record read
ChangeStart ==
    \E currentPassword \in Passwords :
        /\ cp.pc = "idle"
        /\ screen = "vault"
        /\ CpIssue([CpIdle EXCEPT !.pc = "getMaster", !.vault = currentVaultId,
                                  !.cur = currentPassword])
        /\ UNCHANGED << regVars, qrVars, toolVars, dbInstances, pendingOpens, leaked, deletePending,
                        sessionVars, duressVars, un, sv, nextSalt >>

ChangeOpened ==
    /\ cp.wait # NoWait
    /\ cp.wait \notin deletePending
    /\ dbInstances' = dbInstances \cup {cp.wait}
    /\ leaked' = IF cp.wait \in dbInstances THEN leaked \cup {cp.wait} ELSE leaked
    /\ CpDo([cp EXCEPT !.wait = NoWait], StorageAfterOpen(cp.wait))
    /\ UNCHANGED << regVars, qrVars, toolVars, pendingOpens, deletePending, sessionVars, duressVars,
                    un, sv, nextSalt >>

\* the record has been read and the current password checked; the new password
\* is prompted for and the two keys are being derived
ChangeAfterGetMaster ==
    /\ cp.pc = "getMaster" /\ cp.wait = NoWait
    /\ \/ /\ cp.master # << >>
          /\ verifyStoredPassword(cp.cur, cp.master[1])
          /\ nextSalt < MaxSalts
          /\ \E newPassword \in Passwords :
                cp' = [cp EXCEPT !.pc = "derive", !.new = newPassword,
                                 !.oldKey = deriveKey(cp.cur, cp.master[1].salt),
                                 !.newKey = deriveKey(newPassword, nextSalt + 1)]
          /\ nextSalt' = nextSalt + 1
       \/ /\ ~(cp.master # << >> /\ verifyStoredPassword(cp.cur, cp.master[1]))
          /\ cp' = CpIdle
          /\ UNCHANGED nextSalt
    /\ UNCHANGED << regVars, qrVars, toolVars, idbVars, sessionVars, duressVars, un, sv, lastWrite >>

\* the keys are there: the loop starts on the list `credentials` names now;
\* with an empty list the new master record is stored at once
ChangeDerived ==
    /\ cp.pc = "derive"
    /\ IF credentials = << >>
       THEN CpIssue([cp EXCEPT !.pc = "storeMaster"])
       ELSE /\ cp' = [cp EXCEPT !.pc = "crypt", !.snap = credentials, !.idx = 1]
            /\ UNCHANGED << idb, lastWrite >>
    /\ UNCHANGED << regVars, qrVars, toolVars, dbInstances, pendingOpens, leaked, deletePending,
                    sessionVars, duressVars, un, sv, nextSalt >>

\* decrypt and encrypt of credential idx have answered: decrypt rejects under a
\* key the record was not encrypted with; else updateCredential
ChangeCrypted ==
    /\ cp.pc = "crypt"
    /\ IF cp.snap[cp.idx].key # cp.oldKey
       THEN /\ cp' = CpIdle
            /\ UNCHANGED << idb, lastWrite >>
       ELSE CpIssue([cp EXCEPT !.pc = "update"])
    /\ UNCHANGED << regVars, qrVars, toolVars, dbInstances, pendingOpens, leaked, deletePending,
                    sessionVars, duressVars, un, sv, nextSalt >>

\* updateCredential of credential idx is done: the next credential, or the new
\* master record after the last one
ChangeAfterUpdate ==
    /\ cp.pc = "update" /\ cp.wait = NoWait
    /\ IF cp.idx < Len(cp.snap)
       THEN /\ cp' = [cp EXCEPT !.pc = "crypt", !.idx = @ + 1]
            /\ UNCHANGED << idb, lastWrite >>
       ELSE CpIssue([cp EXCEPT !.pc = "storeMaster"])
    /\ UNCHANGED << regVars, qrVars, toolVars, dbInstances, pendingOpens, leaked, deletePending,
                    sessionVars, duressVars, un, sv, nextSalt >>

\* decrypt, encrypt or the put request of credential idx rejects (a corrupt
\* record, a quota or transaction error): the catch shows a toast
ChangeStepFails ==
    /\ cp.pc = "crypt"
    /\ cp' = CpIdle
    /\ UNCHANGED << regVars, qrVars, toolVars, idbVars, sessionVars, duressVars, un, sv,
                    nextSalt, lastWrite >>

\* storeMasterPassword is done: the session key becomes the new key
ChangeAfterStore ==
    /\ cp.pc = "storeMaster" /\ cp.wait = NoWait
    /\ encryptionKey' = cp.newKey
    /\ cp' = CpIdle
    /\ UNCHANGED << regVars, qrVars, toolVars, idbVars, credentials, autoLockTimer, screen,
                    duressVars, un, sv, nextSalt, lastWrite >>

-----------------------------------------------------------------------------
(* Duress controller (security/duress-mode.js) *)

\* getDuressLogs: JSON.parse(localStorage.getItem('duressLogs') || '[]')
getDuressLogsOf(ls) == IF LsHas(ls, DURESS_LOGS_KEY) THEN ls[DURESS_LOGS_KEY] ELSE << >>

DuressLog == getDuressLogsOf(localStorage)

DxIdle == [pc |-> "idle", wipeData |-> FALSE, sendBackup |-> FALSE,
           userEmail |-> FALSE, recoveryEmail |-> FALSE,
           backupSent |-> FALSE, events |-> << >>]

NoReturn == [kind |-> "none", wipeData |-> FALSE, sendBackup |-> FALSE,
             userEmail |-> FALSE, recoveryEmail |-> FALSE,
             backupSent |-> FALSE, events |-> << >>, appended |-> << >>]

enableDuressMode ==
    /\ localStorage' =
         LET a == LsSet(localStorage, DURESS_KEY, "true")
             b == LsSet(a, DURESS_PASSWORD_KEY, "panicHash")
         IN IF LsHas(b, DURESS_CREDENTIALS_KEY) THEN b
            ELSE LsSet(b, DURESS_CREDENTIALS_KEY, "fake")
    /\ duressEnabled' = TRUE
    /\ UNCHANGED << currentVaultId, vaultsCreated, deleteReturn, qrVars, toolVars, idbVars, sessionVars,
                    dx, duressReturn, clock, procVars >>

disableDuressMode ==
    /\ localStorage' =
         LsRemove(LsRemove(LsSet(localStorage, DURESS_KEY, "false"),
                           DURESS_PASSWORD_KEY), DURESS_CREDENTIALS_KEY)
    /\ duressEnabled' = FALSE
    /\ UNCHANGED << currentVaultId, vaultsCreated, deleteReturn, qrVars, toolVars, idbVars, sessionVars,
                    dx, duressReturn, clock, procVars >>

setDuressCredentials ==
    /\ localStorage' = LsSet(localStorage, DURESS_CREDENTIALS_KEY, "custom")
    /\ UNCHANGED << currentVaultId, vaultsCreated, deleteReturn, qrVars, toolVars, idbVars, sessionVars,
                    duressVars, procVars >>

clearDuressLogs ==
    /\ localStorage' = LsRemove(localStorage, DURESS_LOGS_KEY)
    /\ UNCHANGED << currentVaultId, vaultsCreated, deleteReturn, qrVars, toolVars, idbVars, sessionVars,
                    duressVars, procVars >>

\* the step that follows the backup block: wipeAllData if asked for, else the
\* geolocation lookup of the log entry
AfterBackup(wipeData) == IF wipeData THEN "wipe" ELSE "geo"

\* the first awaited call of executeDuressActions
FirstStepSkippingBackup(wipeData, sendBackup, userEmail, recoveryEmail) ==
    AfterBackup(wipeData)

FirstStep(wipeData, sendBackup, userEmail, recoveryEmail) ==
    IF sendBackup /\ (userEmail \/ recoveryEmail) THEN "fetch" ELSE AfterBackup(wipeData)

\* executeDuressActions is called: the options are read and the code runs up to
\* its first await
executeDuressActions ==
    \E wipeData, sendBackup, userEmail, recoveryEmail \in BOOLEAN :
        /\ dx.pc = "idle"
        /\ clock < MaxActivations
        /\ clock' = clock + 1
        /\ LET first == FirstStep(wipeData, sendBackup, userEmail, recoveryEmail)
           IN dx' = [pc |-> first, wipeData |-> wipeData, sendBackup |-> sendBackup,
                     userEmail |-> userEmail, recoveryEmail |-> recoveryEmail,
                     backupSent |-> FALSE, events |-> << first >>]
        /\ duressReturn' = NoReturn
        /\ UNCHANGED << regVars, qrVars, toolVars, idbVars, sessionVars, duressEnabled, procVars >>

\* the catch of the backup block, then the next awaited call
Caught(d, evs) ==
    [d EXCEPT !.pc = AfterBackup(d.wipeData),
              !.events = d.events \o evs \o << "caught", AfterBackup(d.wipeData) >>]

\* await getAllCredentials() returns or raises
DuressFetchDone ==
    /\ dx.pc = "fetch"
    /\ \/ dx' = [dx EXCEPT !.pc = "build", !.events = dx.events \o << "build" >>]
       \/ dx' = Caught(dx, << >>)
    /\ UNCHANGED << regVars, qrVars, toolVars, idbVars, sessionVars, duressEnabled, duressReturn,
                    clock, procVars >>

\* the deliveries sendBackupEmail makes: it is an async function without an
\* await, so both calls and what follows them run in one turn.  `fails` is the
\* set of destinations whose delivery raises.
Deliveries(d, fails) ==
    LET p == IF d.userEmail THEN << "sendPrimary" >> ELSE << >>
        r == IF d.recoveryEmail THEN << "sendRecovery" >> ELSE << >>
    IN IF d.userEmail /\ "primary" \in fails THEN Caught(d, p)
       ELSE IF d.recoveryEmail /\ "recovery" \in fails THEN Caught(d, p \o r)
       ELSE [d EXCEPT !.pc = AfterBackup(d.wipeData),
                      !.backupSent = TRUE,
                      !.events = d.events \o p \o r
                                   \o << "sent", AfterBackup(d.wipeData) >>]

\* await createEncryptedBackup() returns or raises
DuressBuildDone ==
    /\ dx.pc = "build"
    /\ \/ \E fails \in SUBSET {"primary", "recovery"} : dx' = Deliveries(dx, fails)
       \/ dx' = Caught(dx, << >>)
    /\ UNCHANGED << regVars, qrVars, toolVars, idbVars, sessionVars, duressEnabled, duressReturn,
                    clock, procVars >>

\* what wipeAllData leaves in localStorage: nothing
WipedLocalStorageNoRestore(ls) == LsEmpty

\* what wipeAllData leaves in localStorage: the duress log, if there was one
WipedLocalStorage(ls) ==
    IF LsHas(ls, DURESS_LOGS_KEY)
    THEN LsSet(LsEmpty, DURESS_LOGS_KEY, ls[DURESS_LOGS_KEY])
    ELSE LsEmpty

WIPE_PREFIX == << "l", "2", "v", "a", "u", "l", "t" >>

Ended(d, kind, appended) ==
    [kind |-> kind, wipeData |-> d.wipeData, sendBackup |-> d.sendBackup,
     userEmail |-> d.userEmail, recoveryEmail |-> d.recoveryEmail,
     backupSent |-> d.backupSent, events |-> d.events, appended |-> appended]

\* wipeAllData resumes from `await indexedDB.databases()`: with the list it
\* deletes the databases whose name starts with 'l2vault' and clears
\* localStorage but for the log; if the promise is rejected nothing catches it
\* and executeDuressActions ends there
DuressWipeDone ==
    /\ dx.pc = "wipe"
    /\ \/ /\ deleteDatabase({ name \in DOMAIN idb : StartsWith(name, WIPE_PREFIX) })
          /\ localStorage' = WipedLocalStorage(localStorage)
          /\ dx' = [dx EXCEPT !.pc = "geo", !.events = dx.events \o << "wiped", "geo" >>]
          /\ UNCHANGED duressReturn
       \/ /\ dx' = DxIdle
          /\ duressReturn' = Ended(dx, "raised", << >>)
          /\ UNCHANGED << localStorage, idb, deletePending >>
    /\ UNCHANGED << currentVaultId, vaultsCreated, deleteReturn, qrVars, toolVars, dbInstances, pendingOpens, leaked,
                    sessionVars, duressEnabled, clock, procVars >>

OverwriteLog(logs, entry) == << entry >>

\* logs.push(duressLog)
PushLog(logs, entry) == Append(logs, entry)

\* getGeolocation resolves, with a position or with null (the entry's location
\* field, which nothing reads, is left out); the entry is appended to the log
\* and the summary {success, backupSent, wiped} is returned
DuressGeoDone ==
    /\ dx.pc = "geo"
    /\ LET duressLog == [timestamp |-> clock, wiped |-> dx.wipeData,
                         backupSent |-> dx.backupSent]
       IN /\ localStorage' = LsSet(localStorage, DURESS_LOGS_KEY,
                                   PushLog(DuressLog, duressLog))
          /\ duressReturn' = Ended(dx, "returned", << duressLog >>)
    /\ dx' = DxIdle
    /\ UNCHANGED << currentVaultId, vaultsCreated, deleteReturn, qrVars, toolVars, idbVars, sessionVars,
                    duressEnabled, clock, procVars >>

\* getDuressLogs reads the log and changes nothing
getDuressLogs ==
    /\ DuressLog \in Seq([timestamp : Nat, wiped : BOOLEAN, backupSent : BOOLEAN])
    /\ UNCHANGED vars

-----------------------------------------------------------------------------
(* QR sync (ui/qr-sync, bundled in vault-switcher.js).  Texts are sequences of
   one-character strings, binary data sequences of bytes 0..255. *)

CHUNK_SIZE == 500
VERSION_PREFIX == << "L", "2", "V", "1", ":" >>

Digits == << "0", "1", "2", "3", "4", "5", "6", "7", "8", "9" >>
IsDigit(ch) == \E d \in 1..10 : Digits[d] = ch
DigitVal(ch) == (CHOOSE d \in 1..10 : Digits[d] = ch) - 1

\* the decimal text of a number, as a template literal writes it
RECURSIVE ToDecimal(_)
ToDecimal(n) == IF n < 10 THEN << Digits[n + 1] >>
                ELSE Append(ToDecimal(n \div 10), Digits[(n % 10) + 1])

\* parseInt of a text of decimal digits
RECURSIVE parseInt(_)
parseInt(ds) == IF Len(ds) = 0 THEN 0
                ELSE 10 * parseInt(SubSeq(ds, 1, Len(ds) - 1)) + DigitVal(ds[Len(ds)])

\* the base64 alphabet of btoa and atob
B64 == << "A", "B", "C", "D", "E", "F", "G", "H", "I", "J", "K", "L", "M",
          "N", "O", "P", "Q", "R", "S", "T", "U", "V", "W", "X", "Y", "Z",
          "a", "b", "c", "d", "e", "f", "g", "h", "i", "j", "k", "l", "m",
          "n", "o", "p", "q", "r", "s", "t", "u", "v", "w", "x", "y", "z",
          "0", "1", "2", "3", "4", "5", "6", "7", "8", "9", "+", "/" >>
B64Chars == { B64[i] : i \in 1..64 }
B64Val == [ch \in B64Chars |-> (CHOOSE i \in 1..64 : B64[i] = ch) - 1]

Pow64(j) == CASE j = 0 -> 1 [] j = 1 -> 64 [] j = 2 -> 4096 [] j = 3 -> 262144

\* btoa(String.fromCharCode(...bytes)): three bytes give four characters, the
\* last group is padded with '='
btoa(bytes) ==
    LET n == Len(bytes)
        At(i) == IF i <= n THEN bytes[i] ELSE 0
    IN [k \in 1..(4 * ((n + 2) \div 3)) |->
          LET g == (k - 1) \div 4
              j == (k - 1) % 4
              v == At(3 * g + 1) * 65536 + At(3 * g + 2) * 256 + At(3 * g + 3)
          IN IF (j = 2 /\ 3 * g + 2 > n) \/ (j = 3 /\ 3 * g + 3 > n)
             THEN "="
             ELSE B64[((v \div Pow64(3 - j)) % 64) + 1]]

IsAsciiWhitespace(ch) == ch \in {" ", "\n", "\t", "\r", "\f"}

\* atob's first steps: whitespace is removed, then one or two '=' at the end of
\* a text whose length is a multiple of four
AtobData(text) ==
    LET s == SelectSeq(text, LAMBDA ch : ~IsAsciiWhitespace(ch))
        n == Len(s)
    IN IF n % 4 = 0 /\ n >= 4 /\ s[n] = "="
       THEN IF s[n - 1] = "=" THEN SubSeq(s, 1, n - 2) ELSE SubSeq(s, 1, n - 1)
       ELSE s

\* atob raises InvalidCharacterError
AtobFails(text) ==
    LET s == AtobData(text)
    IN Len(s) % 4 = 1 \/ \E i \in 1..Len(s) : s[i] \notin B64Chars

\* atob on a text it accepts: six bits a character, the bits left over after
\* the last whole byte are discarded
atob(text) ==
    LET s == AtobData(text)
    IN [m \in 1..((Len(s) * 6) \div 8) |->
          LET off == 8 * (m - 1)
              c == (off \div 6) + 1
              pair == B64Val[s[c]] * 64 + B64Val[s[c + 1]]
              shift == CASE off % 6 = 0 -> 16 [] off % 6 = 2 -> 4 [] off % 6 = 4 -> 1
          IN (pair \div shift) % 256]

\* the characters of the JSON texts of the model and their char codes
Ascii == ("[" :> 91) @@ ("]" :> 93) @@ ("{" :> 123) @@ ("}" :> 125) @@ ("\"" :> 34)
         @@ (":" :> 58) @@ ("," :> 44) @@ ("a" :> 97) @@ ("b" :> 98) @@ ("c" :> 99)
         @@ ("n" :> 110) @@ ("p" :> 112) @@ ("t" :> 116) @@ ("u" :> 117)

\* new TextEncoder().encode(text) and new TextDecoder().decode(bytes)
TextEncode(text) == [i \in 1..Len(text) |-> Ascii[text[i]]]
CharOf == [b \in 0..255 |-> IF \E ch \in DOMAIN Ascii : Ascii[ch] = b
                             THEN CHOOSE ch \in DOMAIN Ascii : Ascii[ch] = b
                             ELSE "?"]
TextDecode(bytes) == [i \in 1..Len(bytes) |-> CharOf[bytes[i]]]

RECURSIVE SumRange(_, _, _)
SumRange(bytes, lo, hi) ==
    IF lo > hi THEN 0
    ELSE IF lo = hi THEN bytes[lo]
    ELSE LET mid == (lo + hi) \div 2
         IN (SumRange(bytes, lo, mid) + SumRange(bytes, mid + 1, hi)) % 256
ByteSum(bytes) == SumRange(bytes, 1, Len(bytes))

RECURSIVE WeightedRange(_, _, _)
WeightedRange(bytes, lo, hi) ==
    IF lo > hi THEN 0
    ELSE IF lo = hi THEN (bytes[lo] * (lo % 251)) % 256
    ELSE LET mid == (lo + hi) \div 2
         IN (WeightedRange(bytes, lo, mid) + WeightedRange(bytes, mid + 1, hi)) % 256
WeightedSum(bytes) == WeightedRange(bytes, 1, Len(bytes))

\* the transfer passwords a user types
TransferPasswords == {"tp1", "tp2"}
PasswordCode(password) == IF password = "tp1" THEN 1 ELSE 2

\* crypto.getRandomValues for the salt (16 bytes) and the iv (12 bytes): the
\* draws of the model
Seeds == {0, 1}
RandomSalt(seed) == [i \in 1..16 |-> (40 * seed + i) % 256]
RandomIv(seed) == [i \in 1..12 |-> (40 * seed + 100 + i) % 256]

\* PBKDF2 / deriveKey: the key is a function of the password and the salt
TransferKeyIgnoringPassword(password, salt) == ByteSum(salt) % 256
TransferKey(password, salt) == (64 * PasswordCode(password) + ByteSum(salt)) % 256

\* AES-GCM stands as a byte-wise cipher keyed by key and iv, followed by a
\* 16-byte tag over key, iv and plaintext
GcmPad(key, iv) == (key + ByteSum(iv)) % 256
GcmTag(key, iv, plain) ==
    LET pad == GcmPad(key, iv)
        sum == ByteSum(plain)
        weighted == WeightedSum(plain)
    IN [j \in 1..16 |-> CASE j % 2 = 1 -> (pad + j) % 256
                          [] j % 4 = 2 -> (sum + j) % 256
                          [] j % 4 = 0 -> (weighted + j) % 256]
GcmEncrypt(key, iv, plain) ==
    LET pad == GcmPad(key, iv)
    IN [i \in 1..Len(plain) |-> (plain[i] + pad) % 256] \o GcmTag(key, iv, plain)

\* crypto.subtle.decrypt rejects (OperationError) when the tag does not match
GcmPlain(key, iv, ct) ==
    LET pad == GcmPad(key, iv)
    IN [i \in 1..(Len(ct) - 16) |-> (ct[i] + 256 - pad) % 256] \o << >>
GcmRejects(key, iv, ct) ==
    \/ Len(ct) < 16
    \/ SubSeq(ct, Len(ct) - 15, Len(ct)) # GcmTag(key, iv, GcmPlain(key, iv, ct))

\* encryptTransferData: salt, iv and ciphertext in one string of char codes
encryptTransferData(data, password, seed) ==
    LET salt == RandomSalt(seed)
        iv == RandomIv(seed)
    IN salt \o iv \o GcmEncrypt(TransferKey(password, salt), iv, TextEncode(data))

Slice(s, from, to) == SubSeq(s, from, IF to < Len(s) THEN to ELSE Len(s))

\* decryptTransferData: the three slices, the key, the decryption
DecryptRejects(encrypted, password) ==
    LET salt == Slice(encrypted, 1, 16)
        iv == Slice(encrypted, 17, 28)
    IN GcmRejects(TransferKey(password, salt), iv, Slice(encrypted, 29, Len(encrypted)))
decryptTransferData(encrypted, password) ==
    LET salt == Slice(encrypted, 1, 16)
        iv == Slice(encrypted, 17, 28)
    IN TextDecode(GcmPlain(TransferKey(password, salt), iv,
                           Slice(encrypted, 29, Len(encrypted))))

\* the credentials handed to encodeForQR: texts without characters that JSON
\* escapes; every field is a string, as the credential form stores it
Rep(ch, n) == [i \in 1..n |-> ch]
ShortCred == [title |-> << "a" >>, username |-> << >>, password |-> << "b" >>,
              category |-> << >>, notes |-> << >>]
LongCred == [title |-> << "a", "b" >>, username |-> << "u" >>, password |-> << "p" >>,
             category |-> << "c" >>, notes |-> Rep("n", NotesLen)]
CredLists == UNION { [1..n -> {ShortCred, LongCred}] : n \in 0..MaxRecords }

\* value || '' on a string
OrEmpty(v) == IF v = << >> THEN << >> ELSE v

\* credentials.map(cred => ({t, u, p, c, n}))
TransferData(creds) ==
    [i \in 1..Len(creds) |->
        [t |-> creds[i].title, u |-> OrEmpty(creds[i].username), p |-> creds[i].password,
         c |-> OrEmpty(creds[i].category), n |-> OrEmpty(creds[i].notes)]]

JsonField(k, v) == << "\"", k, "\"", ":", "\"" >> \o v \o << "\"" >>
JsonItem(item) ==
    << "{" >> \o JsonField("t", item.t) \o << "," >> \o JsonField("u", item.u)
      \o << "," >> \o JsonField("p", item.p) \o << "," >> \o JsonField("c", item.c)
      \o << "," >> \o JsonField("n", item.n) \o << "}" >>

RECURSIVE JsonItems(_)
JsonItems(data) ==
    IF Len(data) = 0 THEN << >>
    ELSE IF Len(data) = 1 THEN JsonItem(data[1])
    ELSE JsonItem(data[1]) \o << "," >> \o JsonItems(Tail(data))

\* JSON.stringify(transferData)
JsonStringify(data) == << "[" >> \o JsonItems(data) \o << "]" >>

\* JSON.parse: the array whose text this is, among the arrays of the model; any
\* other text raises SyntaxError
ParseDomain == { TransferData(creds) : creds \in CredLists }
JsonParseFails(text) == \A data \in ParseDomain : JsonStringify(data) # text
JsonParse(text) == CHOOSE data \in ParseDomain : JsonStringify(data) = text

\* splitIntoChunks(data, chunkSize)
splitIntoChunks(data, chunkSize) ==
    [k \in 1..((Len(data) + chunkSize - 1) \div chunkSize) |->
        Slice(data, (k - 1) * chunkSize + 1, k * chunkSize)]

\* the header encodeForQR puts before chunk index of total
ChunkHeaderWithoutIndex(index, total) ==
    VERSION_PREFIX \o << "/" >> \o ToDecimal(total) \o << ":" >>
ChunkHeader(index, total) ==
    VERSION_PREFIX \o ToDecimal(index) \o << "/" >> \o ToDecimal(total) \o << ":" >>

\* what encodeForQR hands to btoa
EncryptedFor(creds, transferPassword, seed) ==
    encryptTransferData(JsonStringify(TransferData(creds)), transferPassword, seed)

\* encodeForQR(credentials, transferPassword), seed being the random draw
encodeForQR(creds, transferPassword, seed) ==
    LET chunks == splitIntoChunks(btoa(EncryptedFor(creds, transferPassword, seed)),
                                  CHUNK_SIZE)
    IN [i \in 1..Len(chunks) |-> ChunkHeader(i, Len(chunks)) \o chunks[i]]

\* how many decimal digits p has from position `from` on
RECURSIVE DigitRun(_, _)
DigitRun(p, from) ==
    IF from <= Len(p) /\ IsDigit(p[from]) THEN 1 + DigitRun(p, from + 1) ELSE 0

\* p.startsWith(VERSION_PREFIX) and p.match(/^L2V1:(\d+)\/(\d+):/)
HeaderMatchesAnyTag(p) ==
    LET a == DigitRun(p, 6)
        b == DigitRun(p, 6 + a + 1)
    IN /\ a >= 1
       /\ Len(p) >= 6 + a /\ p[6 + a] = "/"
       /\ b >= 1
       /\ Len(p) >= 6 + a + 1 + b /\ p[6 + a + 1 + b] = ":"
HeaderMatches(p) ==
    LET a == DigitRun(p, 6)
        b == DigitRun(p, 6 + a + 1)
    IN /\ StartsWith(p, VERSION_PREFIX)
       /\ a >= 1
       /\ Len(p) >= 6 + a /\ p[6 + a] = "/"
       /\ b >= 1
       /\ Len(p) >= 6 + a + 1 + b /\ p[6 + a + 1 + b] = ":"

ParsedChunk(p) ==
    LET a == DigitRun(p, 6)
        b == DigitRun(p, 6 + a + 1)
    IN [index |-> parseInt(SubSeq(p, 6, 5 + a)),
        total |-> parseInt(SubSeq(p, 6 + a + 1, 6 + a + b)),
        payload |-> p]

\* Array.prototype.sort((a, b) => a.index - b.index): stable
RECURSIVE InsertByIndex(_, _)
InsertByIndex(sorted, x) ==
    IF sorted = << >> THEN << x >>
    ELSE IF sorted[Len(sorted)].index <= x.index THEN Append(sorted, x)
    ELSE Append(InsertByIndex(SubSeq(sorted, 1, Len(sorted) - 1), x), sorted[Len(sorted)])

KeepOrder(parsed) == parsed
RECURSIVE SortByIndex(_)
SortByIndex(parsed) ==
    IF parsed = << >> THEN << >>
    ELSE InsertByIndex(SortByIndex(SubSeq(parsed, 1, Len(parsed) - 1)), parsed[Len(parsed)])

NoError == [name |-> "none", got |-> 0, expected |-> 0]
Raised(name) == [name |-> name, got |-> 0, expected |-> 0]

\* what sortAndValidateChunks throws, if it does: the first chunk in array order
\* that fails a header test, the read of parsed[0] of an empty array, the count
ValidationError(payloads) ==
    IF \E i \in 1..Len(payloads) : ~HeaderMatches(payloads[i])
    THEN LET k == CHOOSE i \in 1..Len(payloads) :
                      ~HeaderMatches(payloads[i])
                      /\ \A j \in 1..(i - 1) : HeaderMatches(payloads[j])
         IN IF StartsWith(payloads[k], VERSION_PREFIX)
            THEN Raised("Invalid chunk header")
            ELSE Raised("Invalid QR code format")
    ELSE IF payloads = << >>
    THEN Raised("TypeError")
    ELSE IF Len(payloads) # ParsedChunk(payloads[1]).total
    THEN [name |-> "Missing chunks", got |-> Len(payloads),
          expected |-> ParsedChunk(payloads[1]).total]
    ELSE NoError

\* sortAndValidateChunks on payloads it accepts
sortAndValidateChunks(payloads) ==
    LET sorted == SortByIndex([i \in 1..Len(payloads) |-> ParsedChunk(payloads[i])])
    IN [i \in 1..Len(sorted) |-> sorted[i].payload]

\* p.substring(p.indexOf(':', VERSION_PREFIX.length) + 1)
AfterHeader(p) ==
    LET colonIndex == CHOOSE i \in 6..Len(p) :
                          p[i] = ":" /\ \A j \in 6..(i - 1) : p[j] # ":"
    IN SubSeq(p, colonIndex + 1, Len(p))

HeaderOf(p) == SubSeq(p, 1, Len(p) - Len(AfterHeader(p)))

RECURSIVE JoinTexts(_)
JoinTexts(texts) == IF texts = << >> THEN << >> ELSE texts[1] \o JoinTexts(Tail(texts))

\* the base64 text decodeFromQR hands to atob
Base64Of(payloads) ==
    LET sorted == sortAndValidateChunks(payloads)
    IN JoinTexts([i \in 1..Len(sorted) |-> AfterHeader(sorted[i])])

\* transferData.map((item, index) => ({id: Date.now() + index, title: item.t, ...}))
Expand(data, now) ==
    [i \in 1..Len(data) |->
        [id |-> now + (i - 1), title |-> data[i].t, username |-> data[i].u,
         password |-> data[i].p, category |-> data[i].c, notes |-> data[i].n,
         createdAt |-> now, updatedAt |-> now]]

Failure(error, decryptCalled) ==
    [status |-> "error", error |-> error, decryptCalled |-> decryptCalled, records |-> << >>]

\* decodeFromQR(payloads, transferPassword): the records, or the error it raises;
\* decryptCalled tells whether crypto.subtle.decrypt was reached
decodeFromQR(payloads, transferPassword, now) ==
    IF ValidationError(payloads) # NoError
    THEN Failure(ValidationError(payloads), FALSE)
    ELSE LET base64Data == Base64Of(payloads)
         IN IF AtobFails(base64Data)
            THEN Failure(Raised("InvalidCharacterError"), FALSE)
            ELSE LET encryptedData == atob(base64Data)
                 IN IF DecryptRejects(encryptedData, transferPassword)
                    THEN Failure(Raised("OperationError"), TRUE)
                    ELSE LET jsonData == decryptTransferData(encryptedData, transferPassword)
                         IN IF JsonParseFails(jsonData)
                            THEN Failure(Raised("SyntaxError"), TRUE)
                            ELSE [status |-> "records", error |-> NoError,
                                  decryptCalled |-> TRUE,
                                  records |-> Expand(JsonParse(jsonData), now)]

\* one transfer: what was encoded, and the decodeFromQR call made on chunks
\* derived from it
QrIdle == [credentials |-> << >>, transferPassword |-> "none", seed |-> 0,
           chunks |-> << >>, delivery |-> "none", payloads |-> << >>,
           usedPassword |-> "none",
           result |-> [status |-> "none", error |-> NoError, decryptCalled |-> FALSE,
                       records |-> << >>]]

\* Date.now() at the decode
Times == {1000}

\* the call of encodeForQR that starts the transfer
EncodeCall ==
    \E creds \in CredLists, transferPassword \in TransferPasswords, seed \in Seeds :
        /\ qr.chunks = << >>
        /\ qr' = [QrIdle EXCEPT !.credentials = creds,
                                !.transferPassword = transferPassword,
                                !.seed = seed,
                                !.chunks = encodeForQR(creds, transferPassword, seed)]
        /\ UNCHANGED << regVars, idbVars, sessionVars, duressVars, procVars, toolVars >>

\* the call of decodeFromQR on `payloads`, made from the chunks in way `delivery`
DecodeCall(delivery, payloads, password) ==
    /\ qr.chunks # << >>
    /\ qr.delivery = "none"
    /\ \E now \in Times :
          qr' = [qr EXCEPT !.delivery = delivery,
                           !.payloads = payloads,
                           !.usedPassword = password,
                           !.result = decodeFromQR(payloads, password, now)]
    /\ UNCHANGED << regVars, idbVars, sessionVars, duressVars, procVars, toolVars >>

Bijections(n) == { f \in [1..n -> 1..n] : \A i, j \in 1..n : f[i] = f[j] => i = j }

\* every chunk, scanned in any order, with the password of the sender
DecodePermuted ==
    \E f \in Bijections(Len(qr.chunks)) :
        DecodeCall("permuted", [i \in 1..Len(qr.chunks) |-> qr.chunks[f[i]]],
                   qr.transferPassword)

Without(s, k) == [i \in 1..(Len(s) - 1) |-> IF i < k THEN s[i] ELSE s[i + 1]]

\* one chunk is not scanned
DecodeWithheld ==
    \E k \in 1..Len(qr.chunks) :
        DecodeCall("withheld", Without(qr.chunks, k), qr.transferPassword)

\* one chunk is scanned twice in place of another
DecodeRepeated ==
    \E k, j \in 1..Len(qr.chunks) :
        /\ k # j
        /\ DecodeCall("repeated", [qr.chunks EXCEPT ![j] = qr.chunks[k]],
                      qr.transferPassword)

\* one chunk carries another index, or another total, than the sender gave it
DecodeRelabelled ==
    \E k \in 1..Len(qr.chunks), index \in 0..(Len(qr.chunks) + 1),
       total \in {Len(qr.chunks), Len(qr.chunks) + 1} :
        /\ index # k \/ total # Len(qr.chunks)
        /\ DecodeCall("relabelled",
                      [qr.chunks EXCEPT ![k] = ChunkHeader(index, total) \o AfterHeader(@)],
                      qr.transferPassword)

\* every chunk, with another password than the sender's
DecodeWrongPassword ==
    \E password \in TransferPasswords \ {qr.transferPassword} :
        DecodeCall("wrongPassword", qr.chunks, password)

NextB64(ch) == B64[((B64Val[ch] + 1) % 64) + 1]

\* the last character of a text that is not padding
LastData(text) == CHOOSE i \in 1..Len(text) :
                      text[i] # "=" /\ \A j \in (i + 1)..Len(text) : text[j] = "="

\* a payload with one character changed, or with a blank after it
Altered(payload, how) ==
    CASE how = "first" -> [payload EXCEPT ![1] = NextB64(@)]
      [] how = "last" -> [payload EXCEPT ![LastData(payload)] = NextB64(@)]
      [] how = "blank" -> Append(payload, " ")

\* every chunk, one of them with an altered payload
DecodeAltered ==
    \E k \in 1..Len(qr.chunks), how \in {"first", "last", "blank"} :
        DecodeCall("altered",
                   [qr.chunks EXCEPT ![k] = HeaderOf(@) \o Altered(AfterHeader(@), how)],
                   qr.transferPassword)

\* a chunk whose beginning is not 'L2V1:<digits>/<digits>:'
Malformed(chunk, index, total, how) ==
    CASE how = "otherTag" -> [chunk EXCEPT ![4] = "2"]
      [] how = "lowerCase" -> [chunk EXCEPT ![1] = "l"]
      [] how = "noTag" -> SubSeq(chunk, 6, Len(chunk))
      [] how = "noSlash" ->
            VERSION_PREFIX \o ToDecimal(index) \o ToDecimal(total) \o << ":" >>
              \o AfterHeader(chunk)
      [] how = "noIndex" ->
            VERSION_PREFIX \o << "/" >> \o ToDecimal(total) \o << ":" >> \o AfterHeader(chunk)
      [] how = "letterIndex" ->
            VERSION_PREFIX \o << "a", "/" >> \o ToDecimal(total) \o << ":" >>
              \o AfterHeader(chunk)
      [] how = "noColon" ->
            VERSION_PREFIX \o ToDecimal(index) \o << "/" >> \o ToDecimal(total)
              \o AfterHeader(chunk)
      [] how = "payloadOnly" -> AfterHeader(chunk)

MalformedKinds == {"otherTag", "lowerCase", "noTag", "noSlash", "noIndex",
                   "letterIndex", "noColon", "payloadOnly"}

\* one chunk malformed, the others as they are or one of them not scanned
DecodeMalformed ==
    \E k \in 1..Len(qr.chunks), how \in MalformedKinds, drop \in 0..Len(qr.chunks) :
        /\ drop # k
        /\ LET scanned == [qr.chunks EXCEPT ![k] = Malformed(@, k, Len(qr.chunks), how)]
           IN DecodeCall("malformed",
                         IF drop = 0 THEN scanned ELSE Without(scanned, drop),
                         qr.transferPassword)

-----------------------------------------------------------------------------
(* Time-based access (security/time-access.js).  A Date is the local calendar
   day, counted from a Sunday, with the hours and minutes of the day; HH:MM
   texts are sequences of characters, compared as JavaScript compares strings. *)

\* the credential ids that rules are stored for
RuleIds == {1}

\* char codes of the characters of an HH:MM text
TimeCharCode(ch) == IF ch = ":" THEN 58 ELSE 48 + DigitVal(ch)

\* a < b on strings: by code units, a proper prefix being smaller
RECURSIVE StrLess(_, _)
StrLess(a, b) ==
    IF b = << >> THEN FALSE
    ELSE IF a = << >> THEN TRUE
    ELSE IF a[1] # b[1] THEN TimeCharCode(a[1]) < TimeCharCode(b[1])
    ELSE StrLess(Tail(a), Tail(b))

\* a <= b on strings
StrLessNoEqual(a, b) == StrLess(a, b)
StrLeq(a, b) == a = b \/ StrLess(a, b)

\* String(n).padStart(2, '0')
Pad2(n) == IF n < 10 THEN << "0" >> \o ToDecimal(n) ELSE ToDecimal(n)

\* `${padded hours}:${padded minutes}` of a Date
HHMM(date) == Pad2(date.hours) \o << ":" >> \o Pad2(date.minutes)

\* from.getDay(): day 0 is a Sunday
getDay(date) == date.day % 7

\* array.includes(value)
Includes(array, value) == \E i \in 1..Len(array) : array[i] = value

\* schedule.startTime.split(':').map(Number)
SplitTime(text) ==
    LET colon == CHOOSE i \in 1..Len(text) : text[i] = ":" /\ \A j \in 1..(i - 1) : text[j] # ":"
    IN [hours |-> parseInt(SubSeq(text, 1, colon - 1)),
        minutes |-> parseInt(SubSeq(text, colon + 1, Len(text)))]

\* the schedules and rules given to setTimeAccessRule
DefaultDays == << 1, 2, 3, 4, 5 >>
DayArrays == { << >>, DefaultDays, << 0 >>, << 1 >>, << 2 >>, << 3 >>, << 4 >>, << 5 >>,
               << 6 >>, << 0, 6 >>, << 0, 1, 2, 3, 4, 5, 6 >>, << 5, 3, 1 >>, << 2, 4 >> }
T0000 == << "0", "0", ":", "0", "0" >>
T0800 == << "0", "8", ":", "0", "0" >>
T0900 == << "0", "9", ":", "0", "0" >>
T1800 == << "1", "8", ":", "0", "0" >>
StartTimes == { T0900, T0000 }
EndTimes == { T1800, T0900, T0800 }
Schedules == [days : DayArrays, startTime : StartTimes, endTime : EndTimes]

\* a rule argument: enabled is "true", "false" or "undefined"; hasSchedule
\* tells whether rule.schedule is given
NoSchedule == [days |-> << >>, startTime |-> << >>, endTime |-> << >>]
RuleArgs == [enabled : {"true", "false", "undefined"}, hasSchedule : {TRUE},
             schedule : Schedules]
            \cup [enabled : {"true", "false", "undefined"}, hasSchedule : {FALSE},
                  schedule : {NoSchedule}]

NoRule == [credentialId |-> 0, enabled |-> FALSE, schedule |-> NoSchedule, action |-> "none"]

\* the rule setTimeAccessRule stores, with its defaults
StoredRule(credentialId, rule) ==
    [credentialId |-> credentialId,
     enabled |-> IF rule.enabled = "undefined" THEN TRUE ELSE rule.enabled = "true",
     schedule |-> IF rule.hasSchedule THEN rule.schedule
                  ELSE [days |-> DefaultDays, startTime |-> T0900, endTime |-> T1800],
     action |-> "hide"]

\* the times of day and the dates the clock shows at a call
ClockTimes == { << 0, 0 >>, << 8, 59 >>, << 9, 0 >>, << 10, 0 >>, << 18, 0 >>,
                << 18, 1 >>, << 23, 59 >> }
Dates == { [day |-> d, hours |-> t[1], minutes |-> t[2]] : d \in 0..MaxDay, t \in ClockTimes }

NoDate == [day |-> -1, hours |-> 0, minutes |-> 0]

\* result.setHours(hours, minutes, 0, 0) on the date `daysToAdd` days after from
WindowKeepingTime(from, daysToAdd, startTime) ==
    [day |-> from.day + daysToAdd, hours |-> from.hours, minutes |-> from.minutes]
WindowAt(from, daysToAdd, startTime) ==
    [day |-> from.day + daysToAdd, hours |-> SplitTime(startTime).hours,
     minutes |-> SplitTime(startTime).minutes]

\* the loop condition of the day scan
ScanGoesOnPastAWeek(daysToAdd) == daysToAdd <= 8
ScanGoesOn(daysToAdd) == daysToAdd <= 7

\* the day scan from daysToAdd on: the Date found, or null, and the number of
\* iterations made
RECURSIVE ScanDays(_, _, _)
ScanDays(schedule, from, daysToAdd) ==
    IF ~ScanGoesOn(daysToAdd)
    THEN [window |-> NoDate, iterations |-> daysToAdd - 1]
    ELSE LET checkDay == (getDay(from) + daysToAdd) % 7
         IN IF Includes(schedule.days, checkDay)
            THEN [window |-> WindowAt(from, daysToAdd, schedule.startTime),
                  iterations |-> daysToAdd]
            ELSE ScanDays(schedule, from, daysToAdd + 1)

\* calculateNextWindow(schedule, from)
calculateNextWindow(schedule, from) ==
    IF Includes(schedule.days, getDay(from)) /\ StrLess(HHMM(from), schedule.startTime)
    THEN [window |-> WindowAt(from, 0, schedule.startTime), iterations |-> 0]
    ELSE ScanDays(schedule, from, 1)

\* the text of `reason`: null when accessible
ReasonOf(dayAllowed) == IF dayAllowed THEN "Disponivel das startTime as endTime"
                        ELSE "Disponivel apenas: days"

\* isCredentialAccessible(credentialId) with the stored rules and the clock at now
isCredentialAccessibleAt(stored, rules, credentialId, now) ==
    IF credentialId \notin stored \/ ~rules[credentialId].enabled
    THEN [accessible |-> TRUE, reason |-> "", nextWindow |-> NoDate, iterations |-> 0]
    ELSE LET rule == rules[credentialId]
             dayAllowed == Includes(rule.schedule.days, getDay(now))
             timeInWindow == /\ StrLeq(rule.schedule.startTime, HHMM(now))
                             /\ StrLeq(HHMM(now), rule.schedule.endTime)
         IN IF dayAllowed /\ timeInWindow
            THEN [accessible |-> TRUE, reason |-> "", nextWindow |-> NoDate, iterations |-> 0]
            ELSE LET next == calculateNextWindow(rule.schedule, now)
                 IN [accessible |-> FALSE, reason |-> ReasonOf(dayAllowed),
                     nextWindow |-> next.window, iterations |-> next.iterations]

NotAsked == [accessible |-> TRUE, reason |-> "", nextWindow |-> NoDate, iterations |-> 0]

\* the stored rules, and the last isCredentialAccessible call made on them
AccessIdle == [stored |-> {}, rules |-> [id \in RuleIds |-> NoRule],
               asked |-> 0, now |-> NoDate, result |-> NotAsked]

\* setTimeAccessRule(credentialId, rule)
setTimeAccessRule ==
    \E credentialId \in RuleIds, rule \in RuleArgs :
        /\ access' = [AccessIdle EXCEPT
                         !.stored = access.stored \cup {credentialId},
                         !.rules = [access.rules EXCEPT
                                       ![credentialId] = StoredRule(credentialId, rule)]]
        /\ UNCHANGED << regVars, idbVars, sessionVars, duressVars, procVars, qrVars, totpVars, aesVars, verifyVars, breachVars, lockVars, vaultVars, genVars >>

\* removeTimeAccessRule(credentialId)
removeTimeAccessRule ==
    \E credentialId \in RuleIds :
        /\ access' = [AccessIdle EXCEPT
                         !.stored = access.stored \ {credentialId},
                         !.rules = [access.rules EXCEPT ![credentialId] = NoRule]]
        /\ UNCHANGED << regVars, idbVars, sessionVars, duressVars, procVars, qrVars, totpVars, aesVars, verifyVars, breachVars, lockVars, vaultVars, genVars >>

\* isCredentialAccessible(credentialId), the clock showing now
isCredentialAccessible ==
    \E credentialId \in RuleIds, now \in Dates :
        /\ access' = [access EXCEPT
                         !.asked = credentialId,
                         !.now = now,
                         !.result = isCredentialAccessibleAt(access.stored, access.rules,
                                                             credentialId, now)]
        /\ UNCHANGED << regVars, idbVars, sessionVars, duressVars, procVars, qrVars, totpVars, aesVars, verifyVars, breachVars, lockVars, vaultVars, genVars >>

-----------------------------------------------------------------------------
(* TOTP generator (security/totp.js) *)

TOTP_PERIOD == 30
TOTP_DIGITS == 6

Base32Alphabet == << "A", "B", "C", "D", "E", "F", "G", "H", "I", "J", "K", "L", "M",
                     "N", "O", "P", "Q", "R", "S", "T", "U", "V", "W", "X", "Y", "Z",
                     "2", "3", "4", "5", "6", "7" >>
LowerCase == << "a", "b", "c", "d", "e", "f", "g", "h", "i", "j", "k", "l", "m",
                "n", "o", "p", "q", "r", "s", "t", "u", "v", "w", "x", "y", "z" >>

\* String.prototype.toUpperCase, character by character
UpperChar(ch) == IF \E i \in 1..26 : LowerCase[i] = ch
                 THEN Base32Alphabet[CHOOSE i \in 1..26 : LowerCase[i] = ch]
                 ELSE ch
toUpperCase(text) == [i \in 1..Len(text) |-> UpperChar(text[i])]

\* input.replace(/=+$/, '')
RECURSIVE StripPadding(_)
StripPadding(text) ==
    IF text # << >> /\ text[Len(text)] = "="
    THEN StripPadding(SubSeq(text, 1, Len(text) - 1))
    ELSE text

\* alphabet.indexOf(char): -1 when the character is not in the alphabet
Base32Index(ch) == IF \E i \in 1..32 : Base32Alphabet[i] = ch
                   THEN (CHOOSE i \in 1..32 : Base32Alphabet[i] = ch) - 1
                   ELSE -1

\* the accumulator `value` is a 32-bit integer, held as its two 16-bit halves
ZeroWord == [hi |-> 0, lo |-> 0]

\* (value << 5) | idx on 32 bits: the five high bits are lost
ShiftIn(value, idx) ==
    [hi |-> (value.hi * 32 + value.lo \div 2048) % 65536,
     lo |-> ((value.lo * 32) % 65536) + idx]

\* (value >> bits) & 0xff, for bits below 8
LowByteOnly(value, bits) == value.lo % 256
ByteAbove(value, bits) ==
    ((value.lo \div (2 ^ bits)) + (value.hi % (2 ^ bits)) * (2 ^ (16 - bits))) % 256

\* the loop of base32Decode over the characters from position i on
RECURSIVE Base32Loop(_, _, _, _, _)
Base32Loop(clean, i, bits, value, output) ==
    IF i > Len(clean) THEN output
    ELSE LET idx == Base32Index(clean[i])
         IN IF idx = -1 THEN Base32Loop(clean, i + 1, bits, value, output)
            ELSE LET shifted == ShiftIn(value, idx)
                 IN IF bits + 5 >= 8
                    THEN Base32Loop(clean, i + 1, bits + 5 - 8, shifted,
                                    Append(output, ByteAbove(shifted, bits + 5 - 8)))
                    ELSE Base32Loop(clean, i + 1, bits + 5, shifted, output)

\* base32Decode(input)
base32Decode(input) == Base32Loop(toUpperCase(StripPadding(input)), 1, 0, ZeroWord, << >>)

\* counterView.setBigUint64(0, BigInt(counter), false): eight bytes, big endian
CounterBytes(counter) ==
    [j \in 1..8 |-> IF j <= 4 THEN 0 ELSE (counter \div (256 ^ (8 - j))) % 256]

\* algoMap[algorithm] || 'SHA-1', and the length of its digest
SHA1 == << "S", "H", "A", "-", "1" >>
SHA256 == << "S", "H", "A", "-", "2", "5", "6" >>
SHA512 == << "S", "H", "A", "-", "5", "1", "2" >>
HashOf(algorithm) == IF algorithm \in {SHA1, SHA256, SHA512} THEN algorithm ELSE SHA1
DigestLen(hash) == CASE hash = SHA1 -> 20 [] hash = SHA256 -> 32 [] hash = SHA512 -> 64

\* generateHMAC: crypto.subtle.sign stands as a function of key, message and hash
generateHMAC(secret, counter, algorithm) ==
    LET hash == HashOf(algorithm)
        k == ByteSum(secret)
        m == WeightedSum(CounterBytes(counter))
    IN [j \in 1..DigestLen(hash) |-> (k * 7 + m * 13 + j * (17 + DigestLen(hash)) + 5) % 256]

\* the arguments of generateTOTP: time is NoTime when it is not given
NoTime == -1

\* generateTOTP(entry, time), Date.now() / 1000 being seconds: the counter used
TimestampUsed(time, seconds) == IF time = NoTime \/ time = 0 THEN seconds ELSE time
PeriodUsed(entry) == IF entry.period = 0 THEN TOTP_PERIOD ELSE entry.period
DigitsUsed(entry) == IF entry.digits = 0 THEN TOTP_DIGITS ELSE entry.digits
CounterUsed(entry, time, seconds) == TimestampUsed(time, seconds) \div PeriodUsed(entry)

\* code.toString().padStart(digits, '0')
PadStart(text, n) == [i \in 1..(n - Len(text)) |-> "0"] \o text

\* the dynamic truncation and the code text
CodeOf(hmac, digits) ==
    LET offset == hmac[Len(hmac)] % 16
        code == ((hmac[offset + 1] % 128) * 16777216 + hmac[offset + 2] * 65536
                 + hmac[offset + 3] * 256 + hmac[offset + 4]) % (10 ^ digits)
    IN PadStart(ToDecimal(code), digits)

generateTOTP(entry, time, seconds) ==
    CodeOf(generateHMAC(base32Decode(entry.secret), CounterUsed(entry, time, seconds),
                        entry.algorithm),
           DigitsUsed(entry))

\* the characters that encodeURIComponent and URLSearchParams escape, with the
\* two hexadecimal digits of their code
EscapeTable == (":" :> << "3", "A" >>) @@ (" " :> << "2", "0" >>) @@ ("/" :> << "2", "F" >>)
               @@ ("%" :> << "2", "5" >>) @@ ("+" :> << "2", "B" >>) @@ ("&" :> << "2", "6" >>)
               @@ ("=" :> << "3", "D" >>) @@ ("?" :> << "3", "F" >>) @@ ("#" :> << "2", "3" >>)
               @@ ("@" :> << "4", "0" >>)
Escaped(ch) == << "%" >> \o EscapeTable[ch]

RECURSIVE FlatMap(_, _)
FlatMap(Op(_), text) ==
    IF text = << >> THEN << >> ELSE Op(text[1]) \o FlatMap(Op, Tail(text))

\* encodeURIComponent(text)
encodeURIComponent(text) ==
    FlatMap(LAMBDA ch : IF ch \in DOMAIN EscapeTable THEN Escaped(ch) ELSE << ch >>, text)

\* the application/x-www-form-urlencoded serializer of URLSearchParams
FormEncode(text) ==
    FlatMap(LAMBDA ch : IF ch = " " THEN << "+" >>
                        ELSE IF ch \in DOMAIN EscapeTable THEN Escaped(ch) ELSE << ch >>, text)

\* percent-decoding; Malformed when a '%' is not followed by a known code
MalformedText == << "%", "%" >>
RECURSIVE PercentDecode(_)
PercentDecode(text) ==
    IF text = << >> THEN << >>
    ELSE IF text[1] # "%"
    THEN LET rest == PercentDecode(Tail(text))
         IN IF rest = MalformedText THEN MalformedText ELSE << text[1] >> \o rest
    ELSE IF Len(text) >= 3 /\ \E ch \in DOMAIN EscapeTable : EscapeTable[ch] = SubSeq(text, 2, 3)
    THEN LET rest == PercentDecode(SubSeq(text, 4, Len(text)))
             ch == CHOOSE c \in DOMAIN EscapeTable : EscapeTable[c] = SubSeq(text, 2, 3)
         IN IF rest = MalformedText THEN MalformedText ELSE << ch >> \o rest
    ELSE MalformedText

\* decodeURIComponent(text): raises URIError on malformed text
decodeURIComponent(text) == PercentDecode(text)

\* the parser of URLSearchParams on one name or value: '+' is a space, a
\* malformed escape is left as it is
FormDecode(text) ==
    LET spaced == [i \in 1..Len(text) |-> IF text[i] = "+" THEN " " ELSE text[i]]
    IN IF PercentDecode(spaced) = MalformedText THEN spaced ELSE PercentDecode(spaced)

\* text.indexOf(ch) from position `from` on, 1-based; 0 when absent
IndexOf(text, ch, from) ==
    IF \E i \in from..Len(text) : text[i] = ch
    THEN CHOOSE i \in from..Len(text) : text[i] = ch /\ \A j \in from..(i - 1) : text[j] # ch
    ELSE 0

\* text.split(sep)
RECURSIVE Split(_, _)
Split(text, sep) ==
    LET at == IndexOf(text, sep, 1)
    IN IF at = 0 THEN << text >>
       ELSE << SubSeq(text, 1, at - 1) >> \o Split(SubSeq(text, at + 1, Len(text)), sep)

\* text.trim()
RECURSIVE Trim(_)
Trim(text) ==
    IF text # << >> /\ text[1] = " " THEN Trim(Tail(text))
    ELSE IF text # << >> /\ text[Len(text)] = " " THEN Trim(SubSeq(text, 1, Len(text) - 1))
    ELSE text

\* params.toString(): name=value pairs joined by '&'
ParamText(name, value) == name \o << "=" >> \o FormEncode(value)
SearchParamsText(pairs) ==
    IF Len(pairs) = 0 THEN << >>
    ELSE ParamText(pairs[1][1], pairs[1][2])
           \o FlatMap(LAMBDA pair : << "&" >> \o ParamText(pair[1], pair[2]), Tail(pairs))

\* params.get(name) on the query text: the first value of the name, or the
\* empty text when the name is absent (null and '' fall to the same defaults)
ParamsGet(query, name) ==
    LET parts == Split(query, "&")
        NameOf(part) == FormDecode(Split(part, "=")[1])
        ValueOf(part) == LET eq == IndexOf(part, "=", 1)
                         IN IF eq = 0 THEN << >>
                            ELSE FormDecode(SubSeq(part, eq + 1, Len(part)))
    IN IF \E i \in 1..Len(parts) : NameOf(parts[i]) = name
       THEN ValueOf(parts[CHOOSE i \in 1..Len(parts) :
                              NameOf(parts[i]) = name
                              /\ \A j \in 1..(i - 1) : NameOf(parts[j]) # name])
       ELSE << >>

\* the names of the parameters and the fixed parts of the URI
KeySecret == << "s", "e", "c", "r", "e", "t" >>
KeyIssuer == << "i", "s", "s", "u", "e", "r" >>
KeyAlgorithm == << "a", "l", "g", "o", "r", "i", "t", "h", "m" >>
KeyDigits == << "d", "i", "g", "i", "t", "s" >>
KeyPeriod == << "p", "e", "r", "i", "o", "d" >>
OtpAuthScheme == << "o", "t", "p", "a", "u", "t", "h", ":" >>
TotpHost == << "t", "o", "t", "p" >>

\* generateOTPAuthURI(entry)
generateOTPAuthURI(entry) ==
    LET label == IF entry.issuer # << >>
                 THEN encodeURIComponent(entry.issuer) \o << ":" >>
                        \o encodeURIComponent(entry.name)
                 ELSE encodeURIComponent(entry.name)
        params == SearchParamsText(<<
                      << KeySecret, entry.secret >>,
                      << KeyIssuer, entry.issuer >>,
                      << KeyAlgorithm, IF entry.algorithm = << >> THEN SHA1 ELSE entry.algorithm >>,
                      << KeyDigits, ToDecimal(DigitsUsed(entry)) >>,
                      << KeyPeriod, ToDecimal(PeriodUsed(entry)) >> >>)
    IN OtpAuthScheme \o << "/", "/" >> \o TotpHost \o << "/" >> \o label \o << "?" >> \o params

\* parseInt(text) || fallback
ParseIntOr(text, fallback) ==
    LET n == DigitRun(text, 1)
        v == parseInt(SubSeq(text, 1, n))
    IN IF n = 0 \/ v = 0 THEN fallback ELSE v

NoEntry == [name |-> << >>, issuer |-> << >>, secret |-> << >>, algorithm |-> << >>,
            digits |-> 0, period |-> 0]

\* new URL(uri) on a URI with an authority: host, pathname and query
UrlParts(uri) ==
    LET afterScheme == SubSeq(uri, Len(OtpAuthScheme) + 3, Len(uri))
        hash == IndexOf(afterScheme, "#", 1)
        noFragment == IF hash = 0 THEN afterScheme ELSE SubSeq(afterScheme, 1, hash - 1)
        mark == IndexOf(noFragment, "?", 1)
        beforeQuery == IF mark = 0 THEN noFragment ELSE SubSeq(noFragment, 1, mark - 1)
        slash == IndexOf(beforeQuery, "/", 1)
    IN [host |-> IF slash = 0 THEN beforeQuery ELSE SubSeq(beforeQuery, 1, slash - 1),
        pathname |-> IF slash = 0 THEN << >> ELSE SubSeq(beforeQuery, slash, Len(beforeQuery)),
        query |-> IF mark = 0 THEN << >> ELSE SubSeq(noFragment, mark + 1, Len(noFragment))]

\* parseOTPAuthURI(uri): NoEntry stands for null
parseOTPAuthURI(uri) ==
    IF ~StartsWith(uri, OtpAuthScheme \o << "/", "/" >>) THEN NoEntry
    ELSE LET url == UrlParts(uri)
         IN IF url.host # TotpHost THEN NoEntry
            ELSE LET label == decodeURIComponent(Tail(url.pathname))
                 IN IF url.pathname = << >> \/ label = MalformedText THEN NoEntry
                    ELSE LET pieces == IF IndexOf(label, ":", 1) # 0
                                       THEN LET parts == Split(label, ":")
                                            IN << Trim(parts[1]), Trim(parts[2]) >>
                                       ELSE << << >>, label >>
                             issuer == pieces[1]
                             name == pieces[2]
                         IN [name |-> IF name # << >> THEN name ELSE label,
                             issuer |-> IF ParamsGet(url.query, KeyIssuer) # << >>
                                        THEN ParamsGet(url.query, KeyIssuer) ELSE issuer,
                             secret |-> ParamsGet(url.query, KeySecret),
                             algorithm |-> IF ParamsGet(url.query, KeyAlgorithm) # << >>
                                           THEN ParamsGet(url.query, KeyAlgorithm) ELSE SHA1,
                             digits |-> ParseIntOr(ParamsGet(url.query, KeyDigits), 6),
                             period |-> ParseIntOr(ParamsGet(url.query, KeyPeriod), 30)]

\* the texts handed to base32Decode: characters of the alphabet in either case,
\* one character outside it anywhere, '=' at the end
Base32Bodies == UNION { [1..n -> {"7", "k"}] : n \in 0..MaxSecretLen }
WithJunk(body) ==
    {body} \cup { SubSeq(body, 1, at) \o << junk >> \o SubSeq(body, at + 1, Len(body)) :
                      at \in 0..Len(body), junk \in {"=", "1", " "} }
Padded(text, pad) == text \o [i \in 1..pad |-> "="]

\* the entries handed to generateTOTP and generateOTPAuthURI: stored entries
EntryNames == { << "a", "b" >>, << "a", ":", "b" >>, << "a", " ", "b" >>, << " ", "a" >>,
                << "a", "/", "b" >> }
EntryIssuers == { << >>, << "X" >>, << "X", ":", "Y" >>, << "X", " ", "Y" >>, << "X", " " >> }
EntrySecret == << "J", "B", "S", "W", "Y", "3", "D", "P" >>
TotpEntries == [name : EntryNames, issuer : EntryIssuers, secret : {EntrySecret},
                algorithm : {SHA1, SHA256}, digits : {6, 8}, period : {30, 60}]
GivenTimes == {NoTime, 0, 29, 30, 59, 61}
ClockSeconds == {0, 45, 90}

TotpIdle == [op |-> "none", input |-> << >>, bytes |-> << >>, entry |-> NoEntry,
             time |-> NoTime, clock |-> 0, counter |-> 0, code |-> << >>,
             uri |-> << >>, parsed |-> NoEntry]

\* a call of base32Decode
Base32DecodeCall ==
    /\ totp.op = "none"
    /\ \E body \in Base32Bodies : \E text \in WithJunk(body), pad \in 0..2 :
        /\ totp' = [TotpIdle EXCEPT !.op = "decode", !.input = Padded(text, pad),
                                    !.bytes = base32Decode(Padded(text, pad))]
        /\ UNCHANGED << regVars, idbVars, sessionVars, duressVars, procVars, qrVars, accessVars, aesVars, verifyVars, breachVars, lockVars, vaultVars, genVars >>

\* a call of generateTOTP(entry, time) when Date.now() / 1000 is `seconds`
GenerateTOTPCall ==
    /\ totp.op = "none"
    /\ \E entry \in TotpEntries, time \in GivenTimes, seconds \in ClockSeconds :
        /\ totp' = [TotpIdle EXCEPT !.op = "generate", !.entry = entry, !.time = time,
                                    !.clock = seconds,
                                    !.counter = CounterUsed(entry, time, seconds),
                                    !.code = generateTOTP(entry, time, seconds)]
        /\ UNCHANGED << regVars, idbVars, sessionVars, duressVars, procVars, qrVars, accessVars, aesVars, verifyVars, breachVars, lockVars, vaultVars, genVars >>

\* parseOTPAuthURI(generateOTPAuthURI(entry))
OTPAuthURICall ==
    /\ totp.op = "none"
    /\ \E entry \in TotpEntries :
        /\ totp' = [TotpIdle EXCEPT !.op = "uri", !.entry = entry,
                                    !.uri = generateOTPAuthURI(entry),
                                    !.parsed = parseOTPAuthURI(generateOTPAuthURI(entry))]
        /\ UNCHANGED << regVars, idbVars, sessionVars, duressVars, procVars, qrVars, accessVars, aesVars, verifyVars, breachVars, lockVars, vaultVars, genVars >>

-----------------------------------------------------------------------------
(* aes.js: encrypt and decrypt. A string is the tuple of its UTF-16 code
   units, a buffer the tuple of its bytes. *)

IsHighSurrogate(u) == u >= 55296 /\ u <= 56319
IsLowSurrogate(u) == u >= 56320 /\ u <= 57343

\* the scalar values of a string: a surrogate pair is one code point, a
\* surrogate without its partner becomes U+FFFD
RECURSIVE ScalarValues(_)
ScalarValues(units) ==
    IF units = << >> THEN << >>
    ELSE IF Len(units) >= 2 /\ IsHighSurrogate(units[1]) /\ IsLowSurrogate(units[2])
    THEN << 65536 + (units[1] - 55296) * 1024 + (units[2] - 56320) >>
           \o ScalarValues(SubSeq(units, 3, Len(units)))
    ELSE IF IsHighSurrogate(units[1]) \/ IsLowSurrogate(units[1])
    THEN << 65533 >> \o ScalarValues(Tail(units))
    ELSE << units[1] >> \o ScalarValues(Tail(units))

\* the UTF-8 bytes of one code point
Utf8Of(point) ==
    IF point < 128 THEN << point >>
    ELSE IF point < 2048 THEN << 192 + (point \div 64), 128 + (point % 64) >>
    ELSE IF point < 65536 THEN << 224 + (point \div 4096), 128 + ((point \div 64) % 64), 128 + (point % 64) >>
    ELSE << 240 + (point \div 262144), 128 + ((point \div 4096) % 64), 128 + ((point \div 64) % 64),
            128 + (point % 64) >>

\* new TextEncoder().encode(plaintext)
RECURSIVE Utf8Concat(_)
Utf8Concat(cps) == IF cps = << >> THEN << >> ELSE Utf8Of(cps[1]) \o Utf8Concat(Tail(cps))
encode(plaintext) == Utf8Concat(ScalarValues(plaintext))

IsContinuation(bytes, i) == i <= Len(bytes) /\ bytes[i] >= 128 /\ bytes[i] < 192

\* the code points of a byte sequence: a well-formed sequence gives its code
\* point, a byte that starts none gives U+FFFD
RECURSIVE Utf8CodePoints(_)
Utf8CodePoints(bytes) ==
    IF bytes = << >> THEN << >>
    ELSE LET b == bytes[1]
             rest(n) == Utf8CodePoints(SubSeq(bytes, n + 1, Len(bytes)))
         IN IF b < 128 THEN << b >> \o rest(1)
            ELSE IF b >= 194 /\ b < 224 /\ IsContinuation(bytes, 2)
            THEN << (b - 192) * 64 + (bytes[2] - 128) >> \o rest(2)
            ELSE IF b >= 224 /\ b < 240 /\ IsContinuation(bytes, 2) /\ IsContinuation(bytes, 3)
            THEN << (b - 224) * 4096 + (bytes[2] - 128) * 64 + (bytes[3] - 128) >> \o rest(3)
            ELSE IF b >= 240 /\ b < 245 /\ IsContinuation(bytes, 2) /\ IsContinuation(bytes, 3)
                    /\ IsContinuation(bytes, 4)
            THEN << (b - 240) * 262144 + (bytes[2] - 128) * 4096 + (bytes[3] - 128) * 64
                      + (bytes[4] - 128) >> \o rest(4)
            ELSE << 65533 >> \o rest(1)

\* the code units of a sequence of code points
RECURSIVE CodeUnits(_)
CodeUnits(cps) ==
    IF cps = << >> THEN << >>
    ELSE IF cps[1] >= 65536
    THEN << 55296 + ((cps[1] - 65536) \div 1024), 56320 + ((cps[1] - 65536) % 1024) >>
           \o CodeUnits(Tail(cps))
    ELSE << cps[1] >> \o CodeUnits(Tail(cps))

\* new TextDecoder() has ignoreBOM = false: a byte order mark that starts the
\* text is consumed and is not part of the string returned
DropBom(cps) == IF cps # << >> /\ cps[1] = 65279 THEN Tail(cps) ELSE cps

\* new TextDecoder().decode(buffer)
decode(buffer) == CodeUnits(DropBom(Utf8CodePoints(buffer)))

\* arrayBufferToBase64 and base64ToArrayBuffer: one character per byte, then
\* btoa; atob, then one byte per character
arrayBufferToBase64(buffer) == btoa(buffer)
base64ToArrayBuffer(base64) == atob(base64)

\* the keys of importKey in the model
AesKeys == {17, 42}

\* encrypt(plaintext, key) when getRandomValues draws the iv of `seed`
encrypt(plaintext, key, seed) ==
    LET iv == RandomIv(seed)
        data == encode(plaintext)
        cipherBuffer == GcmEncrypt(key, iv, data)
    IN [ciphertext |-> arrayBufferToBase64(cipherBuffer), iv |-> arrayBufferToBase64(iv)]

\* decrypt(ciphertext, ivBase64, key): the text, or the rejection of
\* crypto.subtle.decrypt
decrypt(ciphertext, ivBase64, key) ==
    LET cipherBuffer == base64ToArrayBuffer(ciphertext)
        iv == base64ToArrayBuffer(ivBase64)
    IN IF GcmRejects(key, iv, cipherBuffer)
       THEN [status |-> "error", text |-> << >>]
       ELSE [status |-> "text", text |-> decode(GcmPlain(key, iv, cipherBuffer))]

\* the plaintexts handed to encrypt, of the code units of 'A', U+00E9, U+20AC,
\* U+FEFF and the two halves of the surrogate pair of U+1F600
PlainUnits == {65, 233, 8364, 65279, 55357, 56832}
Plaintexts == UNION { [1..n -> PlainUnits] : n \in 0..MaxPlainLen }

NoText == [status |-> "none", text |-> << >>]
AesIdle == [op |-> "none", plaintext |-> << >>, key |-> 0, ciphertext |-> << >>,
            iv |-> << >>, decryptKey |-> 0, result |-> NoText]

\* a call of encrypt
EncryptCall ==
    /\ aes.op = "none"
    /\ \E plaintext \in Plaintexts, key \in AesKeys, seed \in Seeds :
        LET out == encrypt(plaintext, key, seed)
        IN /\ aes' = [AesIdle EXCEPT !.op = "encrypted", !.plaintext = plaintext,
                                     !.key = key, !.ciphertext = out.ciphertext,
                                     !.iv = out.iv]
           /\ UNCHANGED << regVars, idbVars, sessionVars, duressVars, procVars, qrVars, accessVars, totpVars, verifyVars, breachVars, lockVars, vaultVars, genVars >>

\* a call of decrypt on what encrypt returned
DecryptCall ==
    /\ aes.op = "encrypted"
    /\ \E key \in AesKeys :
        /\ aes' = [aes EXCEPT !.op = "decrypted", !.decryptKey = key,
                              !.result = decrypt(aes.ciphertext, aes.iv, key)]
        /\ UNCHANGED << regVars, idbVars, sessionVars, duressVars, procVars, qrVars, accessVars, totpVars, verifyVars, breachVars, lockVars, vaultVars, genVars >>

-----------------------------------------------------------------------------
(* email-recovery.js: verifyPassword and verifyStoredPassword on the bytes of
   the hashes. *)

\* ARGON2_CONFIG.hashLen
HashLen == 32

\* a ^ b and a | b on bytes
RECURSIVE BitXor(_, _)
BitXor(a, b) == IF a = 0 THEN b
                ELSE IF b = 0 THEN a
                ELSE 2 * BitXor(a \div 2, b \div 2) + ((a + b) % 2)
RECURSIVE BitOr(_, _)
BitOr(a, b) == IF a = 0 THEN b
               ELSE IF b = 0 THEN a
               ELSE 2 * BitOr(a \div 2, b \div 2) + (IF a % 2 = 1 \/ b % 2 = 1 THEN 1 ELSE 0)

\* argon2Module.hash: the 32 bytes are a function of the password and the salt
MasterCode(password) == IF password = "pw1" THEN 31 ELSE 62
deriveKeyBytes(password, salt) ==
    LET mix == MasterCode(password) + ByteSum(salt)
    IN [i \in 1..HashLen |-> (mix + 7 * i) % 256]

\* an accumulator that keeps the last difference alone
KeepLast(diff, x) == x
\* diff |= x
Accumulate(diff, x) == BitOr(diff, x)

\* a loop that leaves at the first difference
LoopStopsAtDifference(i, length, diff) == i < length /\ diff = 0
\* i < derivedHash.length, diff being the number accumulated so far
LoopGoesOn(i, length, diff) == i < length /\ diff \in Nat

\* for (let i = 0; ...; i++) diff |= derivedHash[i] ^ storedHash[i], with the
\* number of bytes compared
RECURSIVE CompareLoop(_, _, _, _)
CompareLoop(derivedHash, storedHash, i, acc) ==
    IF LoopGoesOn(i, Len(derivedHash), acc.diff)
    THEN CompareLoop(derivedHash, storedHash, i + 1,
                     [diff |-> Accumulate(acc.diff, BitXor(derivedHash[i + 1], storedHash[i + 1])),
                      comparisons |-> acc.comparisons + 1])
    ELSE acc

\* verifyPassword(password, salt, storedHash): what it returns and the bytes
\* it compared
verifyPassword(password, salt, storedHash) ==
    LET derivedHash == deriveKeyBytes(password, salt)
    IN IF Len(derivedHash) # Len(storedHash)
       THEN [result |-> FALSE, comparisons |-> 0]
       ELSE LET end == CompareLoop(derivedHash, storedHash, 0, [diff |-> 0, comparisons |-> 0])
            IN [result |-> (end.diff = 0), comparisons |-> end.comparisons]

uint8ArrayToBase64(array) == btoa(array)
base64ToUint8Array(base64) == atob(base64)

\* createPasswordHash(password) when getRandomValues draws the salt of `seed`
createPasswordHash(password, seed) ==
    [hash |-> uint8ArrayToBase64(deriveKeyBytes(password, RandomSalt(seed))),
     salt |-> uint8ArrayToBase64(RandomSalt(seed))]

\* verifyStoredPassword(password, storedHash, storedSalt)
verifyStoredPasswordText(password, storedHash, storedSalt) ==
    verifyPassword(password, base64ToUint8Array(storedSalt), base64ToUint8Array(storedHash))

\* the stored hashes handed to verifyPassword: the hash of a password and salt,
\* that hash with one byte changed, with two bytes changed, one byte shorter,
\* one byte longer, and no bytes
Changed(hash, at, by) == [hash EXCEPT ![at] = (@ + by) % 256]
StoredHashes ==
    UNION { LET hash == deriveKeyBytes(password, RandomSalt(seed))
            IN {hash, SubSeq(hash, 1, HashLen - 1), hash \o << 0 >>, << >>}
               \cup { Changed(hash, at, by) : at \in 1..HashLen, by \in {1, 128} }
               \cup { Changed(Changed(hash, at, 1), HashLen, 1) : at \in 1..(HashLen - 1) } :
            password \in Passwords, seed \in Seeds }

VerifyIdle == [op |-> "none", password |-> "none", salt |-> << >>, storedHash |-> << >>,
               result |-> FALSE, comparisons |-> 0]

\* a call of verifyPassword
VerifyPasswordCall ==
    /\ verify.op = "none"
    /\ \E password \in Passwords, seed \in Seeds, storedHash \in StoredHashes :
        LET out == verifyPassword(password, RandomSalt(seed), storedHash)
        IN /\ verify' = [op |-> "verifyPassword", password |-> password,
                         salt |-> RandomSalt(seed), storedHash |-> storedHash,
                         result |-> out.result, comparisons |-> out.comparisons]
           /\ UNCHANGED << regVars, idbVars, sessionVars, duressVars, procVars, qrVars, accessVars, totpVars, aesVars, breachVars, lockVars, vaultVars, genVars >>

\* a call of verifyStoredPassword on what createPasswordHash returned
VerifyStoredPasswordCall ==
    /\ verify.op = "none"
    /\ \E password \in Passwords, created \in Passwords, seed \in Seeds :
        LET master == createPasswordHash(created, seed)
            out == verifyStoredPasswordText(password, master.hash, master.salt)
        IN /\ verify' = [op |-> "verifyStoredPassword", password |-> password,
                         salt |-> RandomSalt(seed),
                         storedHash |-> deriveKeyBytes(created, RandomSalt(seed)),
                         result |-> out.result, comparisons |-> out.comparisons]
           /\ UNCHANGED << regVars, idbVars, sessionVars, duressVars, procVars, qrVars, accessVars, totpVars, aesVars, breachVars, lockVars, vaultVars, genVars >>

-----------------------------------------------------------------------------
(* dashboard.js: checkAllBreaches, and runBreachCheck of app.js that calls it.
   A credential is TRUE when it has a password field; the clock counts
   milliseconds. *)

\* the delay of the setTimeout between two credentials
PauseMs == 1500

\* a timer that is taken to have elapsed as soon as it is set
PauseElapsedAtOnce(now, due) == TRUE
\* setTimeout calls back no earlier than its delay
PauseElapsed(now, due) == now >= due

\* i < total - 1
PauseFollows(i, total) == i < total - 1

BreachIdle == [pc |-> "idle", caller |-> "none", list |-> << >>, i |-> 0, inFlight |-> 0,
               started |-> << >>, startedAt |-> << >>, returnedAt |-> << >>,
               results |-> << >>, breached |-> << >>, progress |-> 0, pauses |-> 0,
               due |-> 0, now |-> 0, disabled |-> FALSE]

\* the end of an iteration: onProgress, then the pause, or the return of the
\* list after the last credential; runBreachCheck then enables its button
AfterCredential(b) ==
    IF PauseFollows(b.i, Len(b.list))
    THEN [b EXCEPT !.pc = "pause", !.progress = b.i + 1, !.pauses = @ + 1,
                   !.due = b.now + PauseMs]
    ELSE [b EXCEPT !.pc = "returned", !.progress = b.i + 1, !.disabled = FALSE]

\* iteration i of the loop up to its first await: the lookup of a credential
\* that has a password, else the end of the iteration
Iteration(b, i) ==
    IF b.list[i + 1]
    THEN [b EXCEPT !.pc = "lookup", !.i = i, !.inFlight = @ + 1,
                   !.started = Append(@, i + 1), !.startedAt = Append(@, b.now)]
    ELSE AfterCredential([b EXCEPT !.i = i])

\* checkAllBreaches(list, onProgress) up to its first await
checkAllBreaches(b, caller, list) ==
    LET entered == [BreachIdle EXCEPT !.caller = caller, !.list = list, !.now = b.now,
                                      !.disabled = (caller = "runBreachCheck")]
    IN IF Len(list) = 0
       THEN [entered EXCEPT !.pc = "returned", !.disabled = FALSE]
       ELSE Iteration(entered, 0)

\* the lists of the app state: stored records hold encryptedPassword and iv,
\* and no password field
StoredLists == { [k \in 1..n |-> FALSE] : n \in 0..MaxBreachList }
\* lists of decrypted credentials, with or without a password
DecryptedLists == UNION { [1..n -> BOOLEAN] : n \in 0..MaxBreachList }

\* a click on the breach check button, which is disabled while a check runs;
\* with no credentials runBreachCheck shows a toast and returns
runBreachCheck ==
    /\ breach.pc \in {"idle", "returned"}
    /\ ~breach.disabled
    /\ \E list \in StoredLists :
        /\ breach' = IF Len(list) = 0
                     THEN [BreachIdle EXCEPT !.caller = "runBreachCheck", !.now = breach.now]
                     ELSE checkAllBreaches(breach, "runBreachCheck", list)
        /\ UNCHANGED << regVars, idbVars, sessionVars, duressVars, procVars, qrVars, accessVars, totpVars, aesVars, verifyVars, lockVars, vaultVars, genVars >>

\* a call of checkAllBreaches on decrypted credentials
CheckAllBreachesCall ==
    /\ breach.pc \in {"idle", "returned"}
    /\ \E list \in DecryptedLists :
        /\ breach' = checkAllBreaches(breach, "caller", list)
        /\ UNCHANGED << regVars, idbVars, sessionVars, duressVars, procVars, qrVars, accessVars, totpVars, aesVars, verifyVars, lockVars, vaultVars, genVars >>

\* what checkPasswordBreach returns: the suffix was found, it was not found,
\* or fetch failed or answered a status that is not ok, which is caught
LookupFound == [breached |-> TRUE, error |-> FALSE]
LookupNotFound == [breached |-> FALSE, error |-> FALSE]
LookupFailed == [breached |-> FALSE, error |-> TRUE]
LookupResults == {LookupFound, LookupNotFound, LookupFailed}

\* if (result.breached) breached.push({id, title, breachCount, severity})
Pushed(breached, result, position) ==
    IF result.breached THEN Append(breached, position) ELSE breached

\* checkPasswordBreach returns; the iteration ends
LookupReturns ==
    /\ breach.pc = "lookup"
    /\ \E result \in LookupResults :
        /\ breach' = AfterCredential([breach EXCEPT !.inFlight = @ - 1,
                                                    !.returnedAt = Append(@, breach.now),
                                                    !.results = Append(@, result),
                                                    !.breached = Pushed(@, result, breach.i + 1)])
        /\ UNCHANGED << regVars, idbVars, sessionVars, duressVars, procVars, qrVars, accessVars, totpVars, aesVars, verifyVars, lockVars, vaultVars, genVars >>

\* the timer of the pause calls back: i++ and the next iteration
TimerFires ==
    /\ breach.pc = "pause"
    /\ PauseElapsed(breach.now, breach.due)
    /\ breach' = Iteration(breach, breach.i + 1)
    /\ UNCHANGED << regVars, idbVars, sessionVars, duressVars, procVars, qrVars, accessVars, totpVars, aesVars, verifyVars, lockVars, vaultVars, genVars >>

\* time passes
TickSteps == {500, 1000}
ClockTick ==
    /\ \E step \in TickSteps :
        /\ breach.now + step <= MaxNow
        /\ breach' = [breach EXCEPT !.now = @ + step]
        /\ UNCHANGED << regVars, idbVars, sessionVars, duressVars, procVars, qrVars, accessVars, totpVars, aesVars, verifyVars, lockVars, vaultVars, genVars >>

-----------------------------------------------------------------------------
(* app.js: the auto-lock timer against the clock. The record holds the key
   (TRUE: encryptionKey is set), the screen, autoLockTimer (0: null, else the
   id of a timer), the timers the browser has pending, the time of the last
   click or keypress, the clock in milliseconds and the value of the auto-lock
   setting. *)

\* values of the auto-lock setting, in milliseconds
AutoLockTimes == {60000, 120000}
TimerIds == {1, 2}

\* clearAutoLockTimer
clearAutoLockTimer(l) ==
    IF l.handle # 0
    THEN [l EXCEPT !.handle = 0, !.pending = { t \in @ : t.id # l.handle }]
    ELSE l

\* resetAutoLockTimer at the moment l.now
resetAutoLockTimerAt(l) ==
    IF ~l.key THEN l
    ELSE LET cleared == clearAutoLockTimer(l)
             id == CHOOSE n \in TimerIds : \A t \in cleared.pending : t.id # n
         IN [cleared EXCEPT !.handle = id,
                            !.pending = @ \cup {[id |-> id, due |-> l.now + l.timeout]}]

\* lockVault
lockVaultNow(l) == [clearAutoLockTimer([l EXCEPT !.key = FALSE]) EXCEPT !.screen = "lock"]

LockIdle == [key |-> FALSE, screen |-> "lock", handle |-> 0, pending |-> {},
             lastActivity |-> 0, now |-> 0, timeout |-> 60000, hidden |-> FALSE]

\* handleUnlock, submitted by a click or a keypress, ends well: the key is set,
\* the vault screen is shown and the timer is armed with the setting's value
UnlockDone ==
    /\ lock.screen = "lock" /\ ~lock.key
    /\ \E timeout \in AutoLockTimes :
        /\ lock' = resetAutoLockTimerAt([lock EXCEPT !.key = TRUE, !.screen = "vault",
                                                     !.timeout = timeout,
                                                     !.lastActivity = lock.now])
        /\ UNCHANGED << regVars, idbVars, sessionVars, duressVars, procVars, qrVars, accessVars, totpVars, aesVars, verifyVars, breachVars, vaultVars, genVars >>

\* a click or a keypress anywhere in the document
ClickOrKeypress ==
    /\ lock' = resetAutoLockTimerAt([lock EXCEPT !.lastActivity = lock.now])
    /\ UNCHANGED << regVars, idbVars, sessionVars, duressVars, procVars, qrVars, accessVars, totpVars, aesVars, verifyVars, breachVars, vaultVars, genVars >>

\* visibilitychange: when the document becomes hidden and the key is set the
\* listener calls resetAutoLockTimer
VisibilityChange ==
    /\ lock' = IF ~lock.hidden /\ lock.key
               THEN resetAutoLockTimerAt([lock EXCEPT !.hidden = TRUE])
               ELSE [lock EXCEPT !.hidden = ~@]
    /\ UNCHANGED << regVars, idbVars, sessionVars, duressVars, procVars, qrVars, accessVars, totpVars, aesVars, verifyVars, breachVars, vaultVars, genVars >>

\* a pending timer calls back: lockVault
AutoLockFires ==
    /\ \E t \in lock.pending :
        /\ t.due <= lock.now
        /\ lock' = lockVaultNow([lock EXCEPT !.pending = @ \ {t}])
        /\ UNCHANGED << regVars, idbVars, sessionVars, duressVars, procVars, qrVars, accessVars, totpVars, aesVars, verifyVars, breachVars, vaultVars, genVars >>

\* a click on the lock button: lockVault, then the document's click listener,
\* which finds no key
LockButton ==
    /\ lock.screen = "vault"
    /\ lock' = resetAutoLockTimerAt(lockVaultNow([lock EXCEPT !.lastActivity = lock.now]))
    /\ UNCHANGED << regVars, idbVars, sessionVars, duressVars, procVars, qrVars, accessVars, totpVars, aesVars, verifyVars, breachVars, vaultVars, genVars >>

\* time passes, up to the moment the next timer is due
ClockSteps == {30000, 60000}
TimePasses ==
    /\ \E step \in ClockSteps :
        /\ lock.now + step <= MaxClock
        /\ \A t \in lock.pending : lock.now + step <= t.due
        /\ lock' = [lock EXCEPT !.now = @ + step]
        /\ UNCHANGED << regVars, idbVars, sessionVars, duressVars, procVars, qrVars, accessVars, totpVars, aesVars, verifyVars, breachVars, vaultVars, genVars >>

-----------------------------------------------------------------------------
(* app.js: the handlers of one vault, one call after the other, with backup
   export and import. The record `vault` holds the auth store (master), the
   credentials store (id -> record, each record named by the key that encrypted
   its password), the store's key generator, the settings store, encryptionKey,
   the list `credentials` of app.js, the backup files written so far, the
   handleImport call in progress and how the last handler ended. *)

NoSnapshot == << >>
Snapshot(v) == << [creds |-> v.creds, settings |-> v.settings] >>

ImIdle == [pc |-> "idle", rest |-> << >>, settings |-> << >>]

VaultIdle == [master |-> << >>, creds |-> << >>, nextId |-> 1, settings |-> << >>,
              key |-> NoKey, credentials |-> << >>, files |-> {}, salts |-> 0,
              im |-> ImIdle, before |-> NoSnapshot,
              last |-> [op |-> "none", ok |-> TRUE], failed |-> FALSE]

\* a file the user picks that is no backup of this application
NotABackup == [password |-> "none", salt |-> 0, credentials |-> << >>, settings |-> << >>]

\* the handler `op` has returned, through its catch block when ~ok
Finished(v, op, ok) ==
    [v EXCEPT !.last = [op |-> op, ok |-> ok],
              !.before = IF op = "handleImport" THEN @ ELSE NoSnapshot,
              !.failed = @ \/ ~ok]

\* loadCredentials: credentials = await getAllCredentials()
loadCredentials(v) == [v EXCEPT !.credentials = GetAllFrom(v.creds, "store", 1)]

\* store.put(record) of updateCredential
PutAt(creds, id, key) ==
    [x \in (DOMAIN creds) \cup {id} |-> IF x = id THEN [key |-> key] ELSE creds[x]]

\* store.add(record) of addCredential: the key generator gives the id
addCredential(v, key) ==
    [v EXCEPT !.creds = PutAt(@, v.nextId, key), !.nextId = @ + 1]

\* store.delete(id) of deleteCredential
DeleteAt(creds, id) == [x \in (DOMAIN creds) \ {id} |-> creds[x]]

\* handleUnlock, from the lock screen: the first-time path stores the hash of
\* the password under a fresh salt, the other path verifies the password
handleUnlock ==
    /\ vault.im.pc = "idle" /\ vault.key = NoKey
    /\ \E password \in Passwords :
        /\ IF vault.master = << >>
           THEN /\ vault.salts < MaxDraws
                /\ LET salt == vault.salts + 1
                       hash == deriveKey(password, salt)
                   IN vault' = Finished(loadCredentials(
                                  [vault EXCEPT !.master = << [hash |-> hash, salt |-> salt] >>,
                                                !.salts = salt, !.key = hash]),
                                  "handleUnlock", TRUE)
           ELSE IF verifyStoredPassword(password, vault.master[1])
           THEN vault' = Finished(loadCredentials(
                             [vault EXCEPT !.key = deriveKey(password, vault.master[1].salt)]),
                             "handleUnlock", TRUE)
           ELSE vault' = Finished(vault, "handleUnlock", FALSE)
        /\ UNCHANGED << regVars, idbVars, sessionVars, duressVars, procVars, qrVars, accessVars, totpVars, aesVars, verifyVars, breachVars, lockVars, genVars >>

\* the lock button
LockVault ==
    /\ vault.im.pc = "idle" /\ vault.key # NoKey
    /\ vault' = Finished([vault EXCEPT !.key = NoKey, !.credentials = << >>], "lockVault", TRUE)
    /\ UNCHANGED << regVars, idbVars, sessionVars, duressVars, procVars, qrVars, accessVars, totpVars, aesVars, verifyVars, breachVars, lockVars, genVars >>

\* handleSaveCredential without an id: the password is encrypted with
\* encryptionKey and the record is added
handleSaveNew ==
    /\ vault.im.pc = "idle" /\ vault.key # NoKey
    /\ Cardinality(DOMAIN vault.creds) < MaxCreds
    /\ vault.nextId <= MaxIds
    /\ vault' = Finished(loadCredentials(addCredential(vault, vault.key)),
                         "handleSaveCredential", TRUE)
    /\ UNCHANGED << regVars, idbVars, sessionVars, duressVars, procVars, qrVars, accessVars, totpVars, aesVars, verifyVars, breachVars, lockVars, genVars >>

\* handleSaveCredential with the id of a credential of the list
handleSaveEdit ==
    /\ vault.im.pc = "idle" /\ vault.key # NoKey
    /\ \E i \in 1..Len(vault.credentials) :
        /\ vault' = Finished(loadCredentials(
                        [vault EXCEPT !.creds = PutAt(@, vault.credentials[i].id, vault.key)]),
                        "handleSaveCredential", TRUE)
        /\ UNCHANGED << regVars, idbVars, sessionVars, duressVars, procVars, qrVars, accessVars, totpVars, aesVars, verifyVars, breachVars, lockVars, genVars >>

\* handleDeleteCredential
handleDeleteCredential ==
    /\ vault.im.pc = "idle" /\ vault.key # NoKey
    /\ \E i \in 1..Len(vault.credentials) :
        /\ vault' = Finished(loadCredentials(
                        [vault EXCEPT !.creds = DeleteAt(@, vault.credentials[i].id)]),
                        "handleDeleteCredential", TRUE)
        /\ UNCHANGED << regVars, idbVars, sessionVars, duressVars, procVars, qrVars, accessVars, totpVars, aesVars, verifyVars, breachVars, lockVars, genVars >>

\* toggleTheme: the theme shown is the stored one, or 'dark' when none is stored;
\* setSetting('theme', next) stores the other one
toggleTheme ==
    /\ vault.im.pc = "idle" /\ vault.key # NoKey
    /\ LET current == IF vault.settings = << >> THEN "dark" ELSE vault.settings.theme
           next == IF current = "dark" THEN "light" ELSE "dark"
       IN /\ vault' = Finished([vault EXCEPT !.settings = [theme |-> next]], "toggleTheme", TRUE)
          /\ UNCHANGED << regVars, idbVars, sessionVars, duressVars, procVars, qrVars, accessVars, totpVars, aesVars, verifyVars, breachVars, lockVars, genVars >>

\* handleExport: exportAllData() as it is stored, encrypted under a key of the
\* export password and a fresh salt; the file is downloaded
handleExport ==
    /\ vault.im.pc = "idle" /\ vault.key # NoKey
    /\ Cardinality(vault.files) < MaxFiles
    /\ vault.salts < MaxDraws
    /\ \E exportPassword \in Passwords :
        /\ vault' = Finished(
                        [vault EXCEPT !.salts = @ + 1,
                                      !.files = @ \cup {[password |-> exportPassword,
                                                         salt |-> vault.salts + 1,
                                                         credentials |-> GetAllFrom(vault.creds, "store", 1),
                                                         settings |-> vault.settings]}],
                        "handleExport", TRUE)
        /\ UNCHANGED << regVars, idbVars, sessionVars, duressVars, procVars, qrVars, accessVars, totpVars, aesVars, verifyVars, breachVars, lockVars, genVars >>

\* the re-encryption loop of handleChangePassword over the list `credentials`:
\* decrypt raises on a record that oldKey did not encrypt
RECURSIVE ReEncrypt(_, _, _, _)
ReEncrypt(creds, list, oldKey, newKey) ==
    IF list = << >> THEN [creds |-> creds, ok |-> TRUE]
    ELSE IF list[1].key # oldKey THEN [creds |-> creds, ok |-> FALSE]
    ELSE ReEncrypt(PutAt(creds, list[1].id, newKey), Tail(list), oldKey, newKey)

\* handleChangePassword: the current password is verified, every credential of
\* the list is re-encrypted and put, then the new hash and salt are stored and
\* encryptionKey becomes the new key; `credentials` is not loaded again
handleChangePassword ==
    /\ vault.im.pc = "idle" /\ vault.key # NoKey
    /\ \E currentPassword \in Passwords, newPassword \in Passwords :
        /\ IF ~verifyStoredPassword(currentPassword, vault.master[1])
           THEN vault' = Finished(vault, "handleChangePassword", FALSE)
           ELSE /\ vault.salts < MaxDraws
                /\ LET salt == vault.salts + 1
                       oldKey == deriveKey(currentPassword, vault.master[1].salt)
                       newKey == deriveKey(newPassword, salt)
                       done == ReEncrypt(vault.creds, vault.credentials, oldKey, newKey)
                   IN IF done.ok
                      THEN vault' = Finished(
                               [vault EXCEPT !.creds = done.creds, !.salts = salt,
                                             !.master = << [hash |-> newKey, salt |-> salt] >>,
                                             !.key = newKey],
                               "handleChangePassword", TRUE)
                      ELSE vault' = Finished([vault EXCEPT !.creds = done.creds, !.salts = salt],
                                             "handleChangePassword", FALSE)
        /\ UNCHANGED << regVars, idbVars, sessionVars, duressVars, procVars, qrVars, accessVars, totpVars, aesVars, verifyVars, breachVars, lockVars, genVars >>

\* handleImport up to the call of importAllData: a file without salt, iv or
\* data, or a password that is not the export password (decrypt raises), ends
\* in the catch block
ImportStart ==
    /\ vault.im.pc = "idle" /\ vault.key # NoKey
    /\ \E file \in vault.files \cup {NotABackup}, importPassword \in Passwords :
        /\ vault.nextId + Len(file.credentials) <= MaxIds + 1
        /\ IF file = NotABackup \/ importPassword # file.password
           THEN vault' = Finished([vault EXCEPT !.before = Snapshot(vault)], "handleImport", FALSE)
           ELSE vault' = [vault EXCEPT !.before = Snapshot(vault),
                                       !.last = [op |-> "none", ok |-> TRUE],
                                       !.im = [pc |-> "clear", rest |-> file.credentials,
                                               settings |-> file.settings]]
        /\ UNCHANGED << regVars, idbVars, sessionVars, duressVars, procVars, qrVars, accessVars, totpVars, aesVars, verifyVars, breachVars, lockVars, genVars >>

\* the next request of importAllData succeeds: clearAllCredentials, then one
\* addCredential for each credential of the backup, then one setSetting for
\* each setting, then loadCredentials
ImportStep ==
    /\ vault.im.pc # "idle"
    /\ vault' =
         CASE vault.im.pc = "clear" ->
                [vault EXCEPT !.creds = << >>, !.im.pc = "add"]
           [] vault.im.pc = "add" /\ vault.im.rest # << >> ->
                [addCredential(vault, vault.im.rest[1].key) EXCEPT !.im.rest = Tail(@)]
           [] vault.im.pc = "add" /\ vault.im.rest = << >> ->
                IF vault.im.settings = << >>
                THEN [vault EXCEPT !.im.pc = "load"]
                ELSE [vault EXCEPT !.settings = vault.im.settings, !.im.pc = "load"]
           [] vault.im.pc = "load" ->
                Finished([loadCredentials(vault) EXCEPT !.im = ImIdle], "handleImport", TRUE)
    /\ UNCHANGED << regVars, idbVars, sessionVars, duressVars, procVars, qrVars, accessVars, totpVars, aesVars, verifyVars, breachVars, lockVars, genVars >>

\* the next request of importAllData ends in its onerror (a storage error):
\* the rejection reaches the catch block of handleImport
ImportStepFails ==
    /\ vault.im.pc # "idle"
    /\ ~(vault.im.pc = "add" /\ vault.im.rest = << >> /\ vault.im.settings = << >>)
    /\ vault' = Finished([vault EXCEPT !.im = ImIdle], "handleImport", FALSE)
    /\ UNCHANGED << regVars, idbVars, sessionVars, duressVars, procVars, qrVars, accessVars, totpVars, aesVars, verifyVars, breachVars, lockVars, genVars >>

-----------------------------------------------------------------------------
(* generator.js: generateMaxSecurity and ensureComplexity. A string is the
   tuple of its characters; gen holds the last call, the password before
   ensureComplexity and the string returned. *)

UpperCaseLetters == SubSeq(Base32Alphabet, 1, 26)
DigitChars == << "0", "1", "2", "3", "4", "5", "6", "7", "8", "9" >>
\* the symbols of the charset; "grave" stands for the grave accent, its last one
SymbolChars == << "!", "@", "#", "$", "%", "^", "&", "*", "(", ")", "_", "+", "-", "=",
                  "[", "]", "{", "}", "|", ";", ":", ",", ".", "<", ">", "?", "/", "~", "grave" >>

\* the charset of generateMaxSecurity
MaxSecurityCharset == LowerCase \o UpperCaseLetters \o DigitChars \o SymbolChars

\* /[...]/.test(text) for the character class that holds the characters of `class`
TestClass(text, class) ==
    \E i \in 1..Len(text) : \E j \in 1..Len(class) : text[i] = class[j]

\* one repair of ensureComplexity: when `password` has no character of the
\* class, chars[value % chars.length] becomes from[value % from.length]
Repair(chars, password, class, from, value) ==
    IF ~TestClass(password, class)
    THEN [chars EXCEPT ![(value % Len(chars)) + 1] = from[(value % Len(from)) + 1]]
    ELSE chars

\* ensureComplexity(password, {lowercase, uppercase, numbers, symbols: true})
\* with the four values of getRandomValues
ensureComplexity(password, randomValues) ==
    LET lowered == Repair(password, password, LowerCase, LowerCase, randomValues[1])
        uppered == Repair(lowered, password, UpperCaseLetters, UpperCaseLetters, randomValues[2])
        numbered == Repair(uppered, password, DigitChars, DigitChars, randomValues[3])
    IN Repair(numbered, password, SymbolChars, SubSeq(SymbolChars, 1, 8), randomValues[4])

\* the loop of generateMaxSecurity: charset[randomValues[i] % charset.length]
DrawnPassword(length, randomValues) ==
    [i \in 1..length |->
        MaxSecurityCharset[(randomValues[i] % Len(MaxSecurityCharset)) + 1]]

\* generateMaxSecurity(length) with the values of the two getRandomValues calls
generateMaxSecurity(length, randomValues, repairValues) ==
    ensureComplexity(DrawnPassword(length, randomValues), repairValues)

\* values of getRandomValues in the model: for the loop, one that selects a
\* character of each class (153 wraps around the charset); for the repairs,
\* values that reach every position
CharsetValues == {0, 26, 52, 153}
RepairValues == {0, 1, 2, 7}

GenIdle == [op |-> "none", length |-> 0, password |-> << >>, result |-> << >>]

\* a call of generateMaxSecurity(length)
generateMaxSecurityCall ==
    /\ gen.op = "none"
    /\ \E length \in 4..MaxLength :
        \E randomValues \in [1..length -> CharsetValues],
           repairValues \in [1..4 -> RepairValues] :
            /\ gen' = [op |-> "generateMaxSecurity", length |-> length,
                       password |-> DrawnPassword(length, randomValues),
                       result |-> generateMaxSecurity(length, randomValues, repairValues)]
            /\ UNCHANGED << regVars, idbVars, sessionVars, duressVars, procVars, qrVars, accessVars, totpVars, aesVars, verifyVars, breachVars, lockVars, vaultVars >>

-----------------------------------------------------------------------------
(* The state after init(): the default vault's database is open, nothing is
   stored, the lock screen is shown. *)

Init ==
    /\ localStorage = LsEmpty
    /\ currentVaultId = "default"
    /\ vaultsCreated = 0
    /\ deleteReturn = NoDelete
    /\ idb = IdbPut(LsEmpty, getVaultDbName("default"), EmptyDb)
    /\ dbInstances = {getVaultDbName("default")}
    /\ pendingOpens = {}
    /\ leaked = {}
    /\ deletePending = {}
    /\ encryptionKey = NoKey
    /\ credentials = << >>
    /\ autoLockTimer = FALSE
    /\ screen = "lock"
    /\ duressEnabled = FALSE
    /\ dx = DxIdle
    /\ duressReturn = NoReturn
    /\ clock = 0
    /\ un = UnIdle
    /\ cp = CpIdle
    /\ sv = SvIdle
    /\ nextSalt = 0
    /\ lastWrite = NoWrite
    /\ qr = QrIdle
    /\ access = AccessIdle
    /\ totp = TotpIdle
    /\ aes = AesIdle
    /\ verify = VerifyIdle
    /\ breach = BreachIdle
    /\ lock = LockIdle
    /\ vault = VaultIdle
    /\ gen = GenIdle

\* the functions of totp.js, each on its own
NextTotp ==
    \/ Base32DecodeCall
    \/ GenerateTOTPCall
    \/ OTPAuthURICall

SpecTotp == Init /\ [][NextTotp]_vars

\* encrypt, then decrypt of what it returned
NextAes ==
    \/ EncryptCall
    \/ DecryptCall

SpecAes == Init /\ [][NextAes]_vars

\* verifyPassword and verifyStoredPassword, each on its own
NextVerify ==
    \/ VerifyPasswordCall
    \/ VerifyStoredPasswordCall

SpecVerify == Init /\ [][NextVerify]_vars

\* a breach check, from the button or called, and the passing of time
NextBreach ==
    \/ runBreachCheck
    \/ CheckAllBreachesCall
    \/ LookupReturns
    \/ TimerFires
    \/ ClockTick

SpecBreach == Init /\ [][NextBreach]_vars

\* unlocking, activity, the timer and the passing of time
NextAutoLock ==
    \/ UnlockDone
    \/ ClickOrKeypress
    \/ VisibilityChange
    \/ AutoLockFires
    \/ LockButton
    \/ TimePasses

SpecAutoLock == Init /\ [][NextAutoLock]_vars

\* the handlers of app.js on one vault, one call after the other, with export and import
NextBackup ==
    \/ handleUnlock
    \/ LockVault
    \/ handleSaveNew
    \/ handleSaveEdit
    \/ handleDeleteCredential
    \/ toggleTheme
    \/ handleExport
    \/ handleChangePassword
    \/ ImportStart
    \/ ImportStep
    \/ ImportStepFails

SpecBackup == Init /\ [][NextBackup]_vars

\* one call of generateMaxSecurity
NextGenerator ==
    \/ generateMaxSecurityCall

SpecGenerator == Init /\ [][NextGenerator]_vars

\* the exported operations of time-access.js, in any order
NextAccess ==
    \/ setTimeAccessRule
    \/ removeTimeAccessRule
    \/ isCredentialAccessible

SpecAccess == Init /\ [][NextAccess]_vars

\* encodeForQR and decodeFromQR on what a receiver may scan
NextQr ==
    \/ EncodeCall
    \/ DecodePermuted
    \/ DecodeWithheld
    \/ DecodeRepeated
    \/ DecodeRelabelled
    \/ DecodeWrongPassword
    \/ DecodeAltered
    \/ DecodeMalformed

SpecQr == Init /\ [][NextQr]_vars

\* the exported operations of the vault registry, in any order
NextRegistry ==
    \/ createVault
    \/ deleteVault
    \/ renameVault
    \/ setVaultColor
    \/ callSetCurrentVault
    \/ importVaultsMeta

SpecRegistry == Init /\ [][NextRegistry]_vars

\* the registry operations on lists the registry made itself, with the vault
\* switches that open the vaults' databases
NextDelete ==
    \/ createVault
    \/ deleteVault
    \/ renameVault
    \/ setVaultColor
    \/ callSetCurrentVault
    \/ switchToVault
    \/ OpenDone
    \/ IdbDeleteUnblocked

SpecDelete == Init /\ [][NextDelete]_vars

\* unlocking and locking on a registry of several vaults
NextVaults ==
    \/ createVault
    \/ switchToVault
    \/ deleteVault
    \/ OpenDone
    \/ IdbDeleteUnblocked
    \/ UnlockSubmit
    \/ UnlockOpened
    \/ UnlockAfterHasMaster
    \/ UnlockAfterStore
    \/ UnlockAfterGetMaster
    \/ UnlockFinish
    \/ UnlockLoadFails
    \/ lockVault

SpecVaults == Init /\ [][NextVaults]_vars

\* the session handlers of app.js on the registry of a fresh installation
Next ==
    \/ switchToVault
    \/ OpenDone
    \/ UnlockSubmit
    \/ UnlockOpened
    \/ UnlockAfterHasMaster
    \/ UnlockAfterStore
    \/ UnlockAfterGetMaster
    \/ UnlockFinish
    \/ lockVault
    \/ SaveSubmit
    \/ SaveEncrypted
    \/ SaveOpened
    \/ SaveAfterAdd
    \/ SaveFinish
    \/ ChangeStart
    \/ ChangeOpened
    \/ ChangeAfterGetMaster
    \/ ChangeDerived
    \/ ChangeCrypted
    \/ ChangeStepFails
    \/ ChangeAfterUpdate
    \/ ChangeAfterStore

Spec == Init /\ [][Next]_vars

\* the exported operations of the duress controller, in any order
NextDuress ==
    \/ enableDuressMode
    \/ disableDuressMode
    \/ setDuressCredentials
    \/ getDuressLogs
    \/ clearDuressLogs
    \/ executeDuressActions
    \/ DuressFetchDone
    \/ DuressBuildDone
    \/ DuressWipeDone
    \/ DuressGeoDone

SpecDuress == Init /\ [][NextDuress]_vars

\* a duress activation on a registry of several vaults whose databases exist
NextWipe ==
    \/ createVault
    \/ switchToVault
    \/ OpenDone
    \/ IdbDeleteUnblocked
    \/ executeDuressActions
    \/ DuressFetchDone
    \/ DuressBuildDone
    \/ DuressWipeDone
    \/ DuressGeoDone

SpecWipe == Init /\ [][NextWipe]_vars

-----------------------------------------------------------------------------
(* Claims about the duress controller *)

IsPrefix(s, t) == Len(s) <= Len(t) /\ SubSeq(t, 1, Len(s)) = s

BackupEvents == {"fetch", "build", "sendPrimary", "sendRecovery", "sent", "caught"}

HasDestination(c) == c.userEmail \/ c.recoveryEmail

\* in the events of one call: the wipe starts after the backup block has ended
\* (sent or caught) and no event of the backup block follows it; a backup that
\* ended as sent fetched, built and made every delivery
WipeFollowsBackup(c) ==
    LET evs == c.events
    IN /\ \A i \in 1..Len(evs) :
            evs[i] = "wipe" =>
              /\ \E j \in 1..(i - 1) : evs[j] \in {"sent", "caught"}
              /\ \A k \in (i + 1)..Len(evs) : evs[k] \notin BackupEvents
       /\ \A i \in 1..Len(evs) :
            evs[i] = "sent" =>
              /\ \E j \in 1..(i - 1) : evs[j] = "fetch"
              /\ \E j \in 1..(i - 1) : evs[j] = "build"
              /\ c.userEmail => \E j \in 1..(i - 1) : evs[j] = "sendPrimary"
              /\ c.recoveryEmail => \E j \in 1..(i - 1) : evs[j] = "sendRecovery"

\* C2: with sendBackup, wipeData and a destination, the wipe starts only after
\* the backup step has finished (delivered, or failed and caught); never before
\* or during it.
C2_BackupBeforeWipe ==
    /\ (dx.pc # "idle" /\ dx.sendBackup /\ dx.wipeData /\ HasDestination(dx))
          => WipeFollowsBackup(dx)
    /\ (duressReturn.kind # "none" /\ duressReturn.sendBackup /\ duressReturn.wipeData
          /\ HasDestination(duressReturn))
          => WipeFollowsBackup(duressReturn)

C2_Witness ==
    /\ dx.pc = "wipe" /\ dx.sendBackup /\ dx.wipeData
    /\ dx.userEmail /\ dx.recoveryEmail /\ dx.backupSent

\* C3: with wipeData, sendBackup and a destination, a failure of the fetch, of
\* the backup or of a delivery still ends in the wipe performed, a log entry
\* {wiped: true, backupSent: false} and a return value with backupSent false.
C3_FailedBackupStillWipesAndLogs ==
    (/\ duressReturn.kind # "none"
     /\ duressReturn.wipeData /\ duressReturn.sendBackup /\ HasDestination(duressReturn)
     /\ \E i \in 1..Len(duressReturn.events) : duressReturn.events[i] = "caught")
    => /\ duressReturn.kind = "returned"
       /\ \E i \in 1..Len(duressReturn.events) : duressReturn.events[i] = "wiped"
       /\ Len(duressReturn.appended) = 1
       /\ duressReturn.appended[1].wiped
       /\ ~duressReturn.appended[1].backupSent
       /\ ~duressReturn.backupSent

\* C4: every call of executeDuressActions ends without raising and appends
\* exactly one entry to the log, whichever step failed.
C4_AlwaysReturnsAndLogsOnce ==
    duressReturn.kind # "none" =>
        /\ duressReturn.kind = "returned"
        /\ Len(duressReturn.appended) = 1

\* C5: when executeDuressActions with wipeData completes, no vault's database
\* exists any more (the default vault's included) and localStorage holds
\* nothing but the duress log.
C5_WipeRemovesEverything ==
    [][ (dx.pc = "geo" /\ dx'.pc = "idle" /\ dx.wipeData)
          => /\ \A v \in VaultIds : getVaultDbName(v) \notin DOMAIN idb'
             /\ DOMAIN localStorage' \subseteq {DURESS_LOGS_KEY} ]_vars

\* C6 as claimed: no exported operation ever shortens or rewrites the log.
C6_LogAppendOnly ==
    [][ IsPrefix(DuressLog, getDuressLogsOf(localStorage')) ]_vars

\* C6 as amended: every exported operation other than clearDuressLogs leaves
\* the earlier log a prefix of the later one; clearDuressLogs empties it.
C6_LogAppendOnlyButClear ==
    [][ \/ IsPrefix(DuressLog, getDuressLogsOf(localStorage'))
        \/ /\ localStorage' = LsRemove(localStorage, DURESS_LOGS_KEY)
           /\ UNCHANGED << dx, duressReturn, duressEnabled >> ]_vars

C6_Witness ==
    /\ Len(DuressLog) >= 2
    /\ duressEnabled
    /\ LsHas(localStorage, DURESS_CREDENTIALS_KEY)

\* C7: the wipe leaves the log as it was, and the entry of the activation is
\* appended after the entries that were there.
C7_WipeKeepsLog ==
    [][ /\ (dx.pc = "wipe" /\ dx' # dx)
            => getDuressLogsOf(localStorage') = DuressLog
        /\ (dx.pc = "geo" /\ dx.wipeData /\ dx' # dx)
            => getDuressLogsOf(localStorage') =
                 Append(DuressLog, [timestamp |-> clock, wiped |-> TRUE,
                                    backupSent |-> dx.backupSent]) ]_vars

C7_Witness ==
    /\ duressReturn.kind = "returned" /\ duressReturn.wipeData
    /\ Len(DuressLog) >= 2
    /\ DuressLog[Len(DuressLog)] = duressReturn.appended[1]

-----------------------------------------------------------------------------
(* Claims about the session handlers and the vaults *)

\* C1: a master-password change is all-or-nothing: when decrypting, encrypting
\* or persisting one credential of the loop fails, every stored credential of the
\* vault is still under the original key, the stored master record is the one
\* read at the start, and the session key is not the new key.
C1_ChangeIsAllOrNothing ==
    [][ (cp.pc = "crypt" /\ cp'.pc = "idle") =>
            LET name == getVaultDbName(cp.vault)
            IN /\ name \in DOMAIN idb'
               /\ \A id \in DOMAIN idb'[name].creds : idb'[name].creds[id].key = cp.oldKey
               /\ idb'[name].auth = cp.master
               /\ encryptionKey' \in {cp.oldKey, NoKey} ]_vars

\* C8: a key held in memory belongs to the current vault: it was derived from a
\* master salt of the database getCurrentVaultId names, and the list in memory
\* was loaded from that database.
C8_KeyBelongsToCurrentVault ==
    encryptionKey # NoKey =>
        /\ IdbHas(getDbName)
        /\ encryptionKey.salt \in idb[getDbName].salts
        /\ \A i \in 1..Len(credentials) : credentials[i].db = getDbName

\* C9: while the key is null (after lockVault or a vault switch), only a step of
\* handleUnlock sets the key or fills the emptied list again.
C9_OnlyUnlockSetsKey ==
    [][ (/\ encryptionKey = NoKey
         /\ \/ encryptionKey' # NoKey
            \/ credentials = << >> /\ credentials' # << >>)
            => (un.pc \in {"storeMaster", "getMaster", "load"} /\ un'.pc # un.pc) ]_vars

\* C10: a store write is applied to the database of the vault that was current
\* when the operation issuing it started.
C10_WriteGoesToStartingVault ==
    lastWrite.by # "none" => lastWrite.appliedTo = getVaultDbName(lastWrite.startedIn)

\* handleVaultChange has an effect in this step: handles closed, an open asked
\* for, or another vault made current
SwitchTakesEffect ==
    \/ pendingOpens' \ pendingOpens # {}
    \/ dbInstances # {} /\ dbInstances' = {}
    \/ currentVaultId' # currentVaultId

\* handleUnlock has an effect in this step: on the store, the key or the screen
UnlockTakesEffect ==
    /\ un' # un
    /\ idb' # idb \/ encryptionKey' # encryptionKey \/ screen' # screen

\* C11: while handleChangePassword is between its first re-encryption and the
\* storing of the new master hash, no vault switch and no unlock attempt on that
\* vault takes effect.
C11_RotationExcludesSwitchAndUnlock ==
    [][ (cp.pc \in {"crypt", "update"} /\ cp.vault = currentVaultId)
            => ~SwitchTakesEffect /\ ~UnlockTakesEffect ]_vars

-----------------------------------------------------------------------------
(* Claims about the vault registry *)

\* C12: after any sequence of registry calls getAllVaults returns a non-empty
\* list that contains exactly one vault with id 'default', and that vault has
\* isDefault = true.
C12_DefaultVaultAlwaysListed ==
    /\ getAllVaults # << >>
    /\ Cardinality({ i \in 1..Len(getAllVaults) : getAllVaults[i].id = "default" }) = 1
    /\ \A i \in 1..Len(getAllVaults) :
           getAllVaults[i].id = "default" => getAllVaults[i].isDefault

\* C13: deleteVault('default') ends with an error and leaves the vault list, the
\* current vault id and every database as they were.
C13_DeleteDefaultChangesNothing ==
    [][ (deleteReturn' # deleteReturn /\ deleteReturn'.vaultId = "default")
            => /\ deleteReturn'.raised
               /\ UNCHANGED << localStorage, currentVaultId, idb, deletePending >> ]_vars

C13_Witness ==
    /\ deleteReturn = [vaultId |-> "default", raised |-> TRUE]
    /\ Len(getAllVaults) >= 2
    /\ currentVaultId # "default"
    /\ IdbHas(getVaultDbName(currentVaultId))

RECURSIVE NextTimes(_, _)
NextTimes(id, n) == IF n = 0 THEN id ELSE NextTimes(getNextVault(id).id, n - 1)

\* C14: navigation is cyclic: for every registered id, getNextVault and
\* getPreviousVault return registered vaults, the previous of the next is the
\* vault itself, N times next (N the number of vaults) comes back to it, and
\* with one vault both return that vault.
C14_NavigationIsCyclic ==
    \A id \in RegisteredIds :
        /\ getNextVault(id).id \in RegisteredIds
        /\ getPreviousVault(id).id \in RegisteredIds
        /\ getPreviousVault(getNextVault(id).id).id = id
        /\ NextTimes(id, Len(getAllVaults)) = id
        /\ Len(getAllVaults) = 1 =>
               getNextVault(id) = getAllVaults[1] /\ getPreviousVault(id) = getAllVaults[1]

-----------------------------------------------------------------------------
(* Claims about the QR transfer *)

\* the five fields of a decoded record are those of the credential encoded
SameFields(record, cred) ==
    /\ record.title = cred.title
    /\ record.username = cred.username
    /\ record.password = cred.password
    /\ record.category = cred.category
    /\ record.notes = cred.notes

ReturnsTheEncoded ==
    /\ qr.result.status = "records"
    /\ Len(qr.result.records) = Len(qr.credentials)
    /\ \A i \in 1..Len(qr.credentials) : SameFields(qr.result.records[i], qr.credentials[i])

\* C15: decodeFromQR on any permutation of the chunks of encodeForQR, with the
\* same password, returns the N records, in order, each with the title,
\* username, password, category and notes of the original.
C15_RoundTrip ==
    qr.delivery = "permuted" => ReturnsTheEncoded

C15_Witness ==
    /\ qr.delivery = "permuted"
    /\ Len(qr.chunks) >= 3
    /\ qr.payloads[1] = qr.chunks[3]
    /\ Len(qr.credentials) = 2
    /\ qr.result.status = "records"

\* C16: with any one chunk withheld decodeFromQR fails with the incomplete
\* transfer error that reports the chunks received and expected, and returns
\* no records.
C16_WithheldChunkIsIncomplete ==
    qr.delivery = "withheld" =>
        /\ qr.result.status = "error"
        /\ qr.result.error = [name |-> "Missing chunks", got |-> Len(qr.chunks) - 1,
                              expected |-> Len(qr.chunks)]
        /\ qr.result.records = << >>

\* the chunk set holds every index 1..total once and one total
CompleteSet(payloads) ==
    /\ payloads # << >>
    /\ \A i \in 1..Len(payloads) : HeaderMatches(payloads[i])
    /\ LET total == ParsedChunk(payloads[1]).total
       IN /\ \A i \in 1..Len(payloads) : ParsedChunk(payloads[i]).total = total
          /\ Len(payloads) = total
          /\ \A n \in 1..total : \E i \in 1..Len(payloads) : ParsedChunk(payloads[i]).index = n

\* C17: a chunk set with a repeated index, an index outside 1..total or
\* differing totals is rejected as an incomplete transfer before any
\* decryption is attempted.
C17_OnlyCompleteSetsAccepted ==
    (qr.delivery \in {"repeated", "relabelled"} /\ ~CompleteSet(qr.payloads)) =>
        /\ qr.result.status = "error"
        /\ qr.result.error.name = "Missing chunks"
        /\ ~qr.result.decryptCalled

\* C18: with another password than the sender's, or with an altered payload,
\* decodeFromQR fails and returns no records; it never returns records that
\* differ from the encoded ones.
C18_WrongPasswordOrAlteredFails ==
    /\ qr.delivery \in {"wrongPassword", "altered"} =>
           qr.result.status = "error" /\ qr.result.records = << >>
    /\ qr.result.status = "records" => ReturnsTheEncoded

\* the bytes atob gives for the payloads differ from those that were encoded
BytesDiffer ==
    \/ AtobFails(Base64Of(qr.payloads))
    \/ atob(Base64Of(qr.payloads))
         # EncryptedFor(qr.credentials, qr.transferPassword, qr.seed)

\* C18 as the code has it: the decode fails with another password (the
\* decryption rejects) and with an alteration that changes the bytes atob
\* decodes; an alteration that atob ignores (the bits left over in the last
\* character, a blank) decodes to the encoded records; records that differ from
\* the encoded ones are never returned.
C18_WrongPasswordOrChangedBytesFails ==
    /\ qr.delivery = "wrongPassword" =>
           /\ qr.result.status = "error"
           /\ qr.result.error.name = "OperationError"
           /\ qr.result.records = << >>
    /\ (qr.delivery = "altered" /\ BytesDiffer) =>
           qr.result.status = "error" /\ qr.result.records = << >>
    /\ (qr.delivery = "altered" /\ ~BytesDiffer) => ReturnsTheEncoded
    /\ qr.result.status = "records" => ReturnsTheEncoded

C18_Witness ==
    /\ qr.delivery = "altered"
    /\ Len(qr.chunks) >= 2
    /\ BytesDiffer
    /\ qr.result.decryptCalled
    /\ qr.result.status = "error"

\* C19: decodeFromQR fails and returns no records whenever a chunk does not
\* begin with 'L2V1:' followed by '<index>/<total>:' in decimal digits, whatever
\* the other chunks are.
C19_MalformedChunkRejected ==
    qr.delivery = "malformed" =>
        /\ qr.result.status = "error"
        /\ qr.result.error.name \in {"Invalid QR code format", "Invalid chunk header"}
        /\ qr.result.records = << >>

C19_Witness ==
    /\ qr.delivery = "malformed"
    /\ Len(qr.chunks) >= 2
    /\ Len(qr.payloads) = Len(qr.chunks)
    /\ qr.payloads[1] = qr.chunks[1]
    /\ qr.result.error.name = "Invalid QR code format"

\* C20: encodeForQR returns at least one chunk; chunk i of T begins with
\* 'L2V1:i/T:', every payload has at most 500 characters and every one but the
\* last exactly 500, and the payloads in index order are the base64 text of
\* salt, nonce and ciphertext.
C20_ChunkFormat ==
    (qr.transferPassword # "none" /\ qr.delivery = "none") =>
        LET T == Len(qr.chunks)
            header(i) == << "L", "2", "V", "1", ":" >> \o ToDecimal(i) \o << "/" >>
                           \o ToDecimal(T) \o << ":" >>
            payload(i) == SubSeq(qr.chunks[i], Len(header(i)) + 1, Len(qr.chunks[i]))
        IN /\ T >= 1
           /\ \A i \in 1..T :
                 /\ StartsWith(qr.chunks[i], header(i))
                 /\ Len(payload(i)) <= 500
                 /\ i < T => Len(payload(i)) = 500
           /\ JoinTexts([i \in 1..T |-> payload(i)])
                = btoa(EncryptedFor(qr.credentials, qr.transferPassword, qr.seed))

C20_Witness ==
    /\ Len(qr.chunks) = 3
    /\ Len(qr.chunks[3]) < 500
    /\ qr.delivery = "none"

-----------------------------------------------------------------------------
(* Claims about the time-based access *)

\* the rule in force at the last isCredentialAccessible call, and the clock
AskedRule == access.rules[access.asked]
RuleApplies == access.asked \in access.stored /\ AskedRule.enabled
MinutesOf(text) == 60 * SplitTime(text).hours + SplitTime(text).minutes
MinutesNow == 60 * access.now.hours + access.now.minutes
TodayAllowed == \E i \in 1..Len(AskedRule.schedule.days) :
                    AskedRule.schedule.days[i] = access.now.day % 7
InsideWindow ==
    /\ MinutesOf(AskedRule.schedule.startTime) <= MinutesNow
    /\ MinutesNow <= MinutesOf(AskedRule.schedule.endTime)

\* C21: isCredentialAccessible reports accessible=true exactly when there is
\* no stored rule, or the rule is disabled, or the weekday is one of the rule's
\* days and startTime <= HH:MM <= endTime, bounds included; otherwise it reports
\* accessible=false with a non-empty reason.
C21_AccessibleExactlyInWindow ==
    access.asked # 0 =>
        /\ access.result.accessible = (~RuleApplies \/ (TodayAllowed /\ InsideWindow))
        /\ ~access.result.accessible => access.result.reason # ""

C21_Witness ==
    /\ access.asked # 0
    /\ RuleApplies
    /\ TodayAllowed
    /\ MinutesNow = MinutesOf(AskedRule.schedule.endTime)
    /\ MinutesOf(AskedRule.schedule.startTime) < MinutesNow
    /\ access.result.accessible

\* the weekday k days after the clock's is one of the rule's days
AllowedAhead(k) == \E i \in 1..Len(AskedRule.schedule.days) :
                       AskedRule.schedule.days[i] = (access.now.day + k) % 7
StartOn(day) == [day |-> day, hours |-> MinutesOf(AskedRule.schedule.startTime) \div 60,
                 minutes |-> MinutesOf(AskedRule.schedule.startTime) % 60]
MonToFri0918 == [days |-> << 1, 2, 3, 4, 5 >>, startTime |-> T0900, endTime |-> T1800]

\* C22: when the credential is not accessible, nextWindow is today at startTime
\* if today is allowed and the time is before startTime, and otherwise the first
\* date 1 to 7 days ahead whose weekday is allowed, at startTime; Monday to
\* Friday 09:00-18:00 on a Saturday at 10:00 gives the following Monday at 09:00.
C22_NextWindowIsNextAllowedStart ==
    /\ (access.asked # 0 /\ ~access.result.accessible /\ \E k \in 1..7 : AllowedAhead(k)) =>
          IF TodayAllowed /\ MinutesNow < MinutesOf(AskedRule.schedule.startTime)
          THEN access.result.nextWindow = StartOn(access.now.day)
          ELSE LET k == CHOOSE k \in 1..7 : AllowedAhead(k) /\ \A j \in 1..(k - 1) : ~AllowedAhead(j)
               IN access.result.nextWindow = StartOn(access.now.day + k)
    /\ (access.asked # 0 /\ RuleApplies /\ AskedRule.schedule = MonToFri0918
        /\ access.now = [day |-> 6, hours |-> 10, minutes |-> 0]) =>
          /\ ~access.result.accessible
          /\ access.result.nextWindow = [day |-> 8, hours |-> 9, minutes |-> 0]

C22_Witness ==
    /\ access.asked # 0
    /\ RuleApplies
    /\ AskedRule.schedule = MonToFri0918
    /\ access.now = [day |-> 6, hours |-> 10, minutes |-> 0]
    /\ access.result.nextWindow = [day |-> 8, hours |-> 9, minutes |-> 0]

\* C23: the day scan of calculateNextWindow makes at most 7 iterations for
\* every schedule and time; with an enabled rule whose day set is empty the
\* credential is inaccessible at every time and nextWindow is null.
C23_ScanEndsWithinAWeek ==
    access.asked # 0 =>
        /\ access.result.iterations <= 7
        /\ (RuleApplies /\ AskedRule.schedule.days = << >>) =>
              ~access.result.accessible /\ access.result.nextWindow = NoDate

C23_Witness ==
    /\ access.asked # 0
    /\ RuleApplies
    /\ AskedRule.schedule.days = << >>
    /\ access.result.iterations = 7
    /\ access.result.nextWindow = NoDate

-----------------------------------------------------------------------------
(* Claims about the TOTP generator *)

\* C24: generateTOTP(entry, time) computes its code from counter =
\* floor(time / period) for every supplied time >= 0, time 0 included, whatever
\* the clock shows at the call.
C24_CounterFromSuppliedTime ==
    (totp.op = "generate" /\ totp.time # NoTime) =>
        /\ totp.counter = totp.time \div totp.entry.period
        /\ totp.code = CodeOf(generateHMAC(base32Decode(totp.entry.secret),
                                           totp.time \div totp.entry.period,
                                           totp.entry.algorithm),
                              totp.entry.digits)

\* the characters of A-Z and 2-7 of the input, upper-cased, the '=' at the end
\* of the input removed
ValidChars(input) ==
    SelectSeq(toUpperCase(StripPadding(input)),
              LAMBDA ch : \E i \in 1..32 : Base32Alphabet[i] = ch)

\* RFC 4648 base32: five bits a character, most significant first, byte m being
\* bits 8(m-1) .. 8m-1 of the stream; the bits after the last whole byte are dropped
Rfc4648Decode(chars) ==
    LET n == Len(chars)
        v(c) == IF c <= n THEN (CHOOSE i \in 1..32 : Base32Alphabet[i] = chars[c]) - 1 ELSE 0
    IN [m \in 1..((5 * n) \div 8) |->
          LET off == 8 * (m - 1)
              c == (off \div 5) + 1
              r == off % 5
              window == v(c) * 1024 + v(c + 1) * 32 + v(c + 2)
          IN (window \div (2 ^ (7 - r))) % 256]

\* C25: base32Decode returns the RFC 4648 decoding of the input with the
\* trailing '=' removed, letters upper-cased and other characters skipped, for
\* secrets of any length although its accumulator has 32 bits.
C25_Base32DecodeIsRfc4648 ==
    totp.op = "decode" => totp.bytes = Rfc4648Decode(ValidChars(totp.input))

C25_Witness ==
    /\ totp.op = "decode"
    /\ Len(ValidChars(totp.input)) >= 8
    /\ Len(totp.input) > Len(ValidChars(totp.input)) + 1
    /\ totp.input[1] = "7"
    /\ totp.bytes = Rfc4648Decode(ValidChars(totp.input))
    /\ Len(totp.bytes) >= 5

\* C26: parseOTPAuthURI(generateOTPAuthURI(entry)) returns the entry's name,
\* issuer, secret, algorithm, digits and period unchanged, also with an empty
\* issuer and with ':' or characters that need escaping in name or issuer.
C26_UriRoundTrip ==
    totp.op = "uri" =>
        /\ totp.parsed.name = totp.entry.name
        /\ totp.parsed.issuer = totp.entry.issuer
        /\ totp.parsed.secret = totp.entry.secret
        /\ totp.parsed.algorithm = totp.entry.algorithm
        /\ totp.parsed.digits = totp.entry.digits
        /\ totp.parsed.period = totp.entry.period

-----------------------------------------------------------------------------
(* Claims about aes.js *)

\* C27: decrypt(c, iv, K) on the {ciphertext c, iv} that encrypt(P, K) returned
\* gives P back, for every plaintext string P and key K, the base64 encoding
\* and decoding of ciphertext and nonce included.
C27_EncryptDecryptRoundTrip ==
    (aes.op = "decrypted" /\ aes.decryptKey = aes.key) =>
        aes.result.status = "text" /\ aes.result.text = aes.plaintext

-----------------------------------------------------------------------------
(* Claims about verifyPassword *)

\* the hash of the password and salt of the last call
DerivedNow == deriveKeyBytes(verify.password, verify.salt)

\* the stored hash is that of another password with the same salt
StoredIsOfAnotherPassword ==
    \E other \in Passwords \ {verify.password} :
        verify.storedHash = deriveKeyBytes(other, verify.salt)

FirstDifference(a, b) ==
    IF a = b THEN 0 ELSE CHOOSE i \in 1..Len(a) : a[i] # b[i] /\ \A j \in 1..(i - 1) : a[j] = b[j]

\* C29: against stored hashes of the length of the derived hash verifyPassword
\* compares the same number of bytes wherever the first differing byte is: the
\* loop visits every byte and has no early exit.
C29_EveryByteCompared ==
    (verify.op # "none" /\ Len(verify.storedHash) = Len(DerivedNow)) =>
        verify.comparisons = Len(DerivedNow)

C29_Witness ==
    /\ verify.op = "verifyPassword"
    /\ Len(verify.storedHash) = HashLen
    /\ FirstDifference(DerivedNow, verify.storedHash) = 1
    /\ verify.comparisons = HashLen
    /\ ~verify.result

-----------------------------------------------------------------------------
(* Claims about checkAllBreaches *)

\* the positions of the credentials of a list that have a password, in order
RECURSIVE WithPassword(_, _)
WithPassword(list, from) ==
    IF from > Len(list) THEN << >>
    ELSE (IF list[from] THEN << from >> ELSE << >>) \o WithPassword(list, from + 1)

\* C30: checkAllBreaches issues its lookups one at a time in list order: a
\* lookup starts only after the previous one has returned and the 1500 ms
\* pause after it has elapsed, at most one lookup is in flight at any time,
\* and no pause follows the last credential.
C30_LookupsOneAtATime ==
    /\ breach.inFlight <= 1
    /\ \A k \in 1..Len(breach.started) :
          /\ breach.list[breach.started[k]]
          /\ k > 1 => /\ breach.started[k - 1] < breach.started[k]
                      /\ Len(breach.returnedAt) >= k - 1
                      /\ breach.startedAt[k] >= breach.returnedAt[k - 1] + 1500
    /\ breach.pc = "pause" => breach.i < Len(breach.list) - 1
    /\ (breach.pc = "returned" /\ breach.list # << >>) =>
          /\ breach.started = WithPassword(breach.list, 1)
          /\ breach.pauses = Len(breach.list) - 1

C30_Witness ==
    /\ breach.pc = "returned"
    /\ Len(breach.list) = 3
    /\ breach.started = << 1, 2, 3 >>
    /\ breach.startedAt[2] = breach.returnedAt[1] + 1500
    /\ breach.pauses = 2

\* what the list checkAllBreaches returned says of the credential at a position
Reported(position) ==
    IF \E k \in 1..Len(breach.breached) : breach.breached[k] = position
    THEN "breached" ELSE "absent"

\* C31: a lookup that fails does not stop checkAllBreaches from checking the
\* remaining credentials, and in the result a credential whose lookup failed
\* is distinguishable from one that was found not breached.
C31_FailureIsFlagged ==
    breach.pc = "returned" =>
        /\ breach.started = WithPassword(breach.list, 1)
        /\ \A j, k \in 1..Len(breach.results) :
              (breach.results[j] = LookupFailed /\ breach.results[k] = LookupNotFound)
                  => Reported(breach.started[j]) # Reported(breach.started[k])

-----------------------------------------------------------------------------
(* Claims about the auto-lock timer *)

\* the vault is unlocked and shown
Unlocked == lock.key /\ lock.screen = "vault"

\* C32: while the vault is unlocked it becomes locked once no click or keypress
\* has occurred for the configured auto-lock time; each click or keypress
\* restarts the countdown, at most one auto-lock timer is pending, and none is
\* pending while the vault is locked.
C32_LocksAfterInactivity ==
    /\ Unlocked => lock.now - lock.lastActivity <= lock.timeout
    /\ Unlocked => \E t \in lock.pending : t.id = lock.handle
    /\ Cardinality(lock.pending) <= 1
    /\ (~lock.key /\ lock.screen = "lock") => lock.pending = {}

-----------------------------------------------------------------------------
(* Claims about the deliveries of executeDuressActions *)

Attempted(delivery) == \E k \in 1..Len(dx.events) : dx.events[k] = delivery

\* C33: with sendBackup and both a primary and a recovery destination a
\* delivery is attempted to each: a failure of the delivery to the primary
\* destination is caught and does not prevent the attempt to the recovery one.
C33_BothDestinationsAttempted ==
    (dx.sendBackup /\ dx.userEmail /\ dx.recoveryEmail /\ Attempted("sendPrimary"))
        => Attempted("sendRecovery")

-----------------------------------------------------------------------------
(* Claims about the database handles *)

\* no indexedDB.open request is in flight
AllOpensCompleted ==
    /\ pendingOpens = {}
    /\ un.wait = NoWait
    /\ sv.wait = NoWait
    /\ cp.wait = NoWait

\* C34: after any interleaving of vault switches with store operations that
\* call initDatabase, once all pending opens have completed at most one vault
\* database handle is open and it is that of the current vault (deleteVault
\* has not been called).
C34_OnlyCurrentHandleOpen ==
    (AllOpensCompleted /\ deleteReturn = NoDelete)
        => (leaked = {} /\ dbInstances \subseteq {getDbName})

-----------------------------------------------------------------------------
(* Claims about the backup handlers of app.js *)

\* the key derived from the master password that the stored hash and salt verify
VerifiedKeys ==
    { deriveKey(p, vault.master[1].salt) :
        p \in { q \in Passwords : verifyStoredPassword(q, vault.master[1]) } }

\* C35: after a sequence of completed unlock, save, delete, export, import and
\* successful master-password change operations on one vault (no handler has
\* ended in its catch block, no import is in progress), every credential of
\* the store is encrypted under the key derived from the master password that
\* the stored hash and salt verify.
C35_StoreDecryptableWithMasterKey ==
    (vault.im.pc = "idle" /\ ~vault.failed /\ vault.master # << >>) =>
        \A id \in DOMAIN vault.creds : vault.creds[id].key \in VerifiedKeys

\* C39: when handleImport has ended in its catch block, the credentials and
\* the settings stored are those stored when it was called.
C39_FailedImportChangesNothing ==
    (vault.last = [op |-> "handleImport", ok |-> FALSE]) =>
        vault.before = Snapshot(vault)

-----------------------------------------------------------------------------
(* Claims about the master record under a vault switch *)

\* the step replaces the master record that the database `name` holds
MasterReplaced(name) ==
    /\ name \in DOMAIN idb /\ name \in DOMAIN idb'
    /\ idb[name].auth # << >>
    /\ idb'[name].auth # idb[name].auth

\* C36: a vault's stored master hash and salt, once set, are replaced by
\* handleChangePassword only: no step of handleUnlock's first-time path,
\* interleaved with a vault switch in any way, applies storeMasterPassword to a
\* vault that already has a master password (behaviours without a deleteVault
\* call).
C36_MasterReplacedByChangeOnly ==
    [][\A name \in DbNames :
          (deleteReturn' = NoDelete /\ MasterReplaced(name)) =>
              lastWrite'.by = "handleChangePassword"]_vars

-----------------------------------------------------------------------------
(* Claims about the error path of handleUnlock *)

\* the step in which handleUnlock shows the vault screen and returns
UnlockEndsWell == un.pc = "load" /\ un.wait = NoWait /\ screen' = "vault"

\* the step in which handleUnlock returns through its catch block
UnlockEndsInError == un.pc # "idle" /\ un'.pc = "idle" /\ ~UnlockEndsWell

\* C37: when handleUnlock ends in its error path (wrong password, new master
\* password too short, key derivation failure, or failure to load the
\* credentials), encryptionKey is null, the lock screen is the active screen
\* and no auto-lock timer is armed.
C37_FailedUnlockLeavesVaultLocked ==
    [][UnlockEndsInError =>
          (encryptionKey' = NoKey /\ screen' = "lock" /\ ~autoLockTimer')]_vars

-----------------------------------------------------------------------------
(* Claims about the next access window *)

\* date a is earlier than date b
Earlier(a, b) ==
    \/ a.day < b.day
    \/ a.day = b.day /\ 60 * a.hours + a.minutes < 60 * b.hours + b.minutes

\* what isCredentialAccessible reports for the asked credential at `date`
AccessibleAt(date) ==
    isCredentialAccessibleAt(access.stored, access.rules, access.asked, date).accessible

\* the instants from the day of the call to a week after it
InstantsAhead ==
    { [day |-> d, hours |-> t[1], minutes |-> t[2]] :
        d \in access.now.day..(access.now.day + 7), t \in ClockTimes }

\* C38: when isCredentialAccessible reports accessible=false with a nextWindow
\* that is not null, nextWindow is later than the evaluation time, the rule
\* evaluated at nextWindow is accessible, and it is accessible at no instant
\* between the evaluation time and nextWindow; for every schedule, those with
\* startTime later than endTime included.
C38_NextWindowIsFirstAccessibleInstant ==
    (access.asked # 0 /\ ~access.result.accessible /\ access.result.nextWindow # NoDate) =>
        /\ Earlier(access.now, access.result.nextWindow)
        /\ AccessibleAt(access.result.nextWindow)
        /\ \A date \in InstantsAhead :
              (Earlier(access.now, date) /\ Earlier(date, access.result.nextWindow)) =>
                  ~AccessibleAt(date)

-----------------------------------------------------------------------------
(* Claims about the password generator *)

\* C40: for every length >= 4 and every outcome of the random generator,
\* generateMaxSecurity(length) returns a string of exactly `length` characters
\* with at least one lowercase letter, one uppercase letter, one digit and one
\* symbol.
C40_EveryClassPresent ==
    gen.op = "generateMaxSecurity" =>
        /\ Len(gen.result) = gen.length
        /\ TestClass(gen.result, LowerCase)
        /\ TestClass(gen.result, UpperCaseLetters)
        /\ TestClass(gen.result, DigitChars)
        /\ TestClass(gen.result, SymbolChars)

=============================================================================
